---- MODULE Spec2Model ----
(***************************************************************************)
(* A model of MySocket, an in-process emulation of a socket subsystem.     *)
(* The socket registry (g_socket_manager), the records it links, the       *)
(* address checks, the buffers, the TCP state machine and the packet       *)
(* delivery path are translated function by function from src/src/*.c.     *)
(***************************************************************************)
EXTENDS Integers, Sequences, FiniteSets, TLC

(* ---------------- program constants (include/mysocket.h) --------------- *)
AF_UNIX == 1
AF_INET == 2
SOCK_STREAM == 1
SOCK_DGRAM == 2
SOCK_RAW == 3
IPPROTO_TCP == 6
IPPROTO_UDP == 17

SS_UNCONNECTED == 0
SS_CONNECTING == 1
SS_CONNECTED == 2
SS_DISCONNECTING == 3
SS_LISTENING == 4
SS_CLOSED == 5

TCP_ESTABLISHED == 1
TCP_SYN_SENT == 2
TCP_SYN_RECV == 3
TCP_FIN_WAIT1 == 4
TCP_FIN_WAIT2 == 5
TCP_TIME_WAIT == 6
TCP_CLOSED == 7
TCP_CLOSE_WAIT == 8
TCP_LAST_ACK == 9
TCP_LISTEN == 10
TCP_CLOSING == 11

MYSOCKET_OK == 0
MYSOCKET_ERROR == -1
MYSOCKET_EAGAIN == -2
MYSOCKET_EINVAL == -3
MYSOCKET_EADDRINUSE == -4
MYSOCKET_ECONNREFUSED == -5
MYSOCKET_ETIMEDOUT == -6

(* ---------------- program constants (include/socket_internal.h) -------- *)
DEFAULT_LISTEN_BACKLOG == 128
TCP_FLAG_FIN == 1
TCP_FLAG_SYN == 2
TCP_FLAG_PSH == 8
TCP_FLAG_ACK == 16

TCP_EVENT_LISTEN == 1
TCP_EVENT_CONNECT == 2
TCP_EVENT_SYN_RECV == 3
TCP_EVENT_SYN_ACK_RECV == 4
TCP_EVENT_ACK_RECV == 5
TCP_EVENT_FIN_RECV == 6
TCP_EVENT_CLOSE == 7
TCP_EVENT_TIMEOUT == 8

(* first handle value of mysocket_init, sizeof(struct mysocket_addr_in),   *)
(* and the first ephemeral port of socket_auto_bind                        *)
FirstFd == 3
SizeofAddrIn == 16
EphemeralLow == 32768

(* ---------------- bounds of the model ---------------------------------- *)
(* handles are issued while next_fd <= MaxFd                               *)
MaxFd == 4
(* the same for the datagram specification, which needs three records      *)
MaxDgramFd == 5
(* DEFAULT_SEND_BUFFER_SIZE / DEFAULT_RECV_BUFFER_SIZE (8192), scaled      *)
BufSize == 2
(* the attempt ceiling of socket_auto_bind (1000), scaled                  *)
AutoBindTries == 1
(* longest payload handed to send / sendto                                 *)
MaxMsgLen == 3
(* largest byte array handed to socket_buffer_write / socket_buffer_read   *)
MaxArea == 4
(* largest backlog handed to listen where the pending queue is filled      *)
MaxBacklog == 2

(* ---------------- byte order (socket_utils.c) -------------------------- *)
mysocket_htons(hostshort) ==
    (((hostshort % 256) * 256) + ((hostshort \div 256) % 256)) % 65536

(* the conversion of a host that is taken to be big-endian *)
mysocket_ntohs_Identity(netshort) == netshort

mysocket_ntohs(netshort) ==
    (((netshort % 256) * 256) + ((netshort \div 256) % 256)) % 65536

mysocket_htonl(hostlong) ==
    ((hostlong % 256) * 16777216)
    + (((hostlong \div 256) % 256) * 65536)
    + (((hostlong \div 65536) % 256) * 256)
    + ((hostlong \div 16777216) % 256)

(* ---------------- addresses -------------------------------------------- *)
Addr(family, port, ip) ==
    [sin_family |-> family, sin_port |-> port, sin_addr |-> ip]

INADDR_ANY == 0
(* socket_simulate_tcp_receive yields data on every tenth call; the size   *)
(* of temp_data in socket_fill_recv_buffer                                  *)
TcpReceivePeriod == 10
TempDataSize == 1024
(* 127.0.0.1 and 127.0.0.2 in network byte order *)
IpLoop == mysocket_htonl(2130706433)
IpOther == mysocket_htonl(2130706434)
PortA == mysocket_htons(9001)
PortB == mysocket_htons(9002)

Min(a, b) == IF a < b THEN a ELSE b


HasFlag(flags, f) == (flags \div f) % 2 = 1
mysocket_ntohl(netlong) ==
    ((netlong % 256) * 16777216)
    + (((netlong \div 256) % 256) * 65536)
    + (((netlong \div 65536) % 256) * 256)
    + ((netlong \div 16777216) % 256)


(* The same two routines on the four bytes of a uint32_t, most significant *)
(* first: values from 2^31 on are beyond the integers TLC computes with.   *)
(* Byte k of the result is the byte the shifts and masks of the code put   *)
(* there.                                                                  *)
LongOf(b) == ((b[1] * 256 + b[2]) * 256 + b[3]) * 256 + b[4]

mysocket_htonl_wide(hostlong) ==
    <<hostlong[4], hostlong[3], hostlong[2], hostlong[1]>>

mysocket_ntohl_wide(netlong) ==
    <<netlong[4], netlong[3], netlong[2], netlong[1]>>

(* ---------------- records (struct mysocket) ---------------------------- *)
(* socket_create: the record built for handle fd.  A buffer is the         *)
(* sequence of its used bytes; *_buf_used is its length.                   *)
socket_create(fd, domain, type, protocol) ==
    [fd |-> fd, family |-> domain, type |-> type, protocol |-> protocol,
     state |-> SS_UNCONNECTED, tcp_state |-> TCP_CLOSED,
     local_addr |-> Addr(domain, 0, 0), peer_addr |-> Addr(domain, 0, 0),
     send_buffer |-> << >>, recv_buffer |-> << >>,
     send_buf_size |-> BufSize, recv_buf_size |-> BufSize,
     listen_queue |-> << >>, listen_backlog |-> 0, listen_count |-> 0]

(* the scan that ends on the head of the list when no handle matches *)
socket_find_by_fd_HeadIfNone(L, fd) ==
    IF \E i \in 1..Len(L) : L[i].fd = fd
    THEN CHOOSE i \in 1..Len(L) :
            L[i].fd = fd /\ \A j \in 1..(i - 1) : L[j].fd # fd
    ELSE IF Len(L) > 0 THEN 1 ELSE 0

(* socket_find_by_fd: position in the list of the first record with this   *)
(* handle, 0 for NULL                                                      *)
socket_find_by_fd(L, fd) ==
    IF \E i \in 1..Len(L) : L[i].fd = fd
    THEN CHOOSE i \in 1..Len(L) :
            L[i].fd = fd /\ \A j \in 1..(i - 1) : L[j].fd # fd
    ELSE 0

(* socket_add_to_manager: insertion at the head of the list *)
socket_add_to_manager(L, sock) == <<sock>> \o L

(* the unlink that handles only the head of the list *)
socket_remove_from_manager_HeadOnly(L, i) ==
    IF i = 1 THEN Tail(L) ELSE L

(* socket_remove_from_manager: unlink the record at position i *)
socket_remove_from_manager(L, i) ==
    SubSeq(L, 1, i - 1) \o SubSeq(L, i + 1, Len(L))

(* ---------------- address checks (socket_bind_listen.c) ---------------- *)
socket_addr_is_any(addr) == addr.sin_addr = 0

(* the scan step with the comparison of two specific IPs left out *)
AddrConflicts_NoExactIp(current, addr, exclude_fd) ==
    /\ ~(exclude_fd >= 0 /\ current.fd = exclude_fd)
    /\ current.local_addr.sin_port # 0
    /\ current.local_addr.sin_port = addr.sin_port
    /\ \/ current.local_addr.sin_addr = 0
       \/ addr.sin_addr = 0

(* one iteration of the scan of socket_check_addr_in_use *)
AddrConflicts(current, addr, exclude_fd) ==
    /\ ~(exclude_fd >= 0 /\ current.fd = exclude_fd)
    /\ current.local_addr.sin_port # 0
    /\ current.local_addr.sin_port = addr.sin_port
    /\ \/ current.local_addr.sin_addr = 0
       \/ addr.sin_addr = 0
       \/ current.local_addr.sin_addr = addr.sin_addr

socket_check_addr_in_use(L, addr, exclude_fd) ==
    \E i \in 1..Len(L) : AddrConflicts(L[i], addr, exclude_fd)

(* first position satisfying P, 0 when none: the shape of every list scan *)
FirstMatch(L, P(_)) ==
    IF \E i \in 1..Len(L) : P(L[i])
    THEN CHOOSE i \in 1..Len(L) : P(L[i]) /\ \A j \in 1..(i - 1) : ~P(L[j])
    ELSE 0

AddrMatches(current, addr) ==
    /\ current.local_addr.sin_port = addr.sin_port
    /\ \/ current.local_addr.sin_addr = 0
       \/ current.local_addr.sin_addr = addr.sin_addr

(* socket_utils.c *)
socket_find_by_address(L, addr) ==
    LET P(c) == AddrMatches(c, addr) IN FirstMatch(L, P)

(* the search for a listener that takes only an equal IP *)
socket_find_listening_socket_Exact(L, addr) ==
    LET P(c) == /\ c.state = SS_LISTENING
                /\ c.local_addr.sin_port = addr.sin_port
                /\ c.local_addr.sin_addr = addr.sin_addr
    IN FirstMatch(L, P)

(* socket_accept_connect.c *)
socket_find_listening_socket(L, addr) ==
    LET P(c) == c.state = SS_LISTENING /\ AddrMatches(c, addr)
    IN FirstMatch(L, P)

(* socket_sendrecv.c *)
socket_find_udp_receiver(L, addr) ==
    LET P(c) == c.type = SOCK_DGRAM /\ AddrMatches(c, addr)
    IN FirstMatch(L, P)

(* ---------------- TCP state machine (tcp_protocol.c) ------------------- *)
(* the sub-state tcp_state_transition leaves in the record *)
TcpNextState(state, event) ==
    CASE state = TCP_CLOSED ->
             IF event = TCP_EVENT_LISTEN THEN TCP_LISTEN
             ELSE IF event = TCP_EVENT_CONNECT THEN TCP_SYN_SENT
             ELSE state
      [] state = TCP_LISTEN ->
             IF event = TCP_EVENT_SYN_RECV THEN TCP_SYN_RECV ELSE state
      [] state = TCP_SYN_SENT ->
             IF event = TCP_EVENT_SYN_ACK_RECV THEN TCP_ESTABLISHED ELSE state
      [] state = TCP_SYN_RECV ->
             IF event = TCP_EVENT_ACK_RECV THEN TCP_ESTABLISHED ELSE state
      [] state = TCP_ESTABLISHED ->
             IF event = TCP_EVENT_FIN_RECV THEN TCP_CLOSE_WAIT
             ELSE IF event = TCP_EVENT_CLOSE THEN TCP_FIN_WAIT1
             ELSE state
      [] state = TCP_FIN_WAIT1 ->
             IF event = TCP_EVENT_ACK_RECV THEN TCP_FIN_WAIT2
             ELSE IF event = TCP_EVENT_FIN_RECV THEN TCP_CLOSING
             ELSE state
      [] state = TCP_FIN_WAIT2 ->
             IF event = TCP_EVENT_FIN_RECV THEN TCP_TIME_WAIT ELSE state
      [] state = TCP_CLOSE_WAIT ->
             IF event = TCP_EVENT_CLOSE THEN TCP_LAST_ACK ELSE state
      [] state = TCP_LAST_ACK ->
             IF event = TCP_EVENT_ACK_RECV THEN TCP_CLOSED ELSE state
      [] state = TCP_CLOSING ->
             IF event = TCP_EVENT_ACK_RECV THEN TCP_TIME_WAIT ELSE state
      [] state = TCP_TIME_WAIT ->
             IF event = TCP_EVENT_TIMEOUT THEN TCP_CLOSED ELSE state
      [] OTHER -> state

(* the transition with the event numbers taken from zero *)
tcp_state_transition_EventFromZero(sock, event) ==
    [sock EXCEPT !.tcp_state = TcpNextState(sock.tcp_state, event + 1)]

(* variant: a received FIN is handled as the record's own close *)
tcp_state_transition_FinAsClose(sock, event) ==
    [sock EXCEPT !.tcp_state =
        TcpNextState(sock.tcp_state,
                     IF event = TCP_EVENT_FIN_RECV THEN TCP_EVENT_CLOSE
                     ELSE event)]

tcp_state_transition(sock, event) ==
    [sock EXCEPT !.tcp_state = TcpNextState(sock.tcp_state, event)]

(* ---------------- packets (tcp_protocol.c, socket_utils.c) ------------- *)
(* the header fields and payload the delivery path reads *)
Packet(sock, flags, data) ==
    [src_addr |-> sock.local_addr.sin_addr,
     dst_addr |-> sock.peer_addr.sin_addr,
     protocol |-> IPPROTO_TCP,
     src_port |-> sock.local_addr.sin_port,
     dst_port |-> sock.peer_addr.sin_port,
     flags |-> flags, data |-> data]

RECURSIVE packet_send(_, _)
RECURSIVE tcp_process_packet(_, _, _)
RECURSIVE tcp_send_ack(_, _)

(* tcp_send_ack: [list, result] after the ACK of L[i] was dispatched *)
tcp_send_ack(L, i) == packet_send(L, Packet(L[i], TCP_FLAG_ACK, << >>))

(* tcp_process_packet: the list after L[i] handled pkt *)
tcp_process_packet(L, i, pkt) ==
    IF pkt.dst_port # L[i].local_addr.sin_port THEN L
    ELSE
      LET L1 == IF HasFlag(pkt.flags, TCP_FLAG_SYN) /\ L[i].tcp_state = TCP_LISTEN
                THEN tcp_send_ack(
                        [L EXCEPT ![i] = tcp_state_transition(L[i], TCP_EVENT_SYN_RECV)],
                        i).list
                ELSE L
          L2 == IF HasFlag(pkt.flags, TCP_FLAG_ACK)
                THEN IF L1[i].tcp_state = TCP_SYN_SENT
                     THEN [L1 EXCEPT ![i] =
                              tcp_state_transition(L1[i], TCP_EVENT_SYN_ACK_RECV)]
                     ELSE IF L1[i].tcp_state = TCP_SYN_RECV
                     THEN [L1 EXCEPT ![i] =
                              tcp_state_transition(L1[i], TCP_EVENT_ACK_RECV)]
                     ELSE L1
                ELSE L1
          L3 == IF HasFlag(pkt.flags, TCP_FLAG_FIN)
                THEN tcp_send_ack(
                        [L2 EXCEPT ![i] = tcp_state_transition(L2[i], TCP_EVENT_FIN_RECV)],
                        i).list
                ELSE L2
          available == L3[i].recv_buf_size - Len(L3[i].recv_buffer)
          copy_len == Min(Len(pkt.data), available)
      IN IF Len(pkt.data) > 0 /\ available > 0
         THEN [L3 EXCEPT ![i].recv_buffer = @ \o SubSeq(pkt.data, 1, copy_len)]
         ELSE L3

(* packet_send: [list, result]; result is 0 when a record owns the          *)
(* destination address and -1 otherwise                                     *)
packet_send(L, pkt) ==
    LET target == socket_find_by_address(L, Addr(AF_INET, pkt.dst_port, pkt.dst_addr))
    IN IF target # 0
       THEN [list |-> IF pkt.protocol = IPPROTO_TCP
                      THEN tcp_process_packet(L, target, pkt) ELSE L,
             result |-> 0]
       ELSE [list |-> L, result |-> -1]

tcp_send_syn(L, i) == packet_send(L, Packet(L[i], TCP_FLAG_SYN, << >>))

tcp_send_fin(L, i) == packet_send(L, Packet(L[i], TCP_FLAG_FIN, << >>))

(* tcp_send_data: fails (-1) on an empty payload, else the packet's fate *)
tcp_send_data(L, i, data) ==
    IF Len(data) = 0 THEN [list |-> L, result |-> -1]
    ELSE packet_send(L, Packet(L[i], TCP_FLAG_PSH + TCP_FLAG_ACK, data))

(* ---------------- buffers (socket_buffer.c) ---------------------------- *)
(* socket_buffer_write: [buffer, written] for a buffer of capacity total *)
socket_buffer_write(buffer, total, data) ==
    LET available == total - Len(buffer)
        write_len == Min(Len(data), available)
    IN IF available = 0 THEN [buffer |-> buffer, written |-> 0]
       ELSE [buffer |-> buffer \o SubSeq(data, 1, write_len), written |-> write_len]

(* socket_buffer_read: [buffer, data] after reading at most len bytes *)
socket_buffer_read(buffer, len) ==
    LET read_len == Min(len, Len(buffer))
    IN IF Len(buffer) = 0 THEN [buffer |-> buffer, data |-> << >>]
       ELSE [buffer |-> SubSeq(buffer, read_len + 1, Len(buffer)),
             data |-> SubSeq(buffer, 1, read_len)]

(* The same two functions on the byte array itself: buffer is the          *)
(* allocated area (total bytes), used the count of valid bytes in front.    *)
(* memcpy(dst + at, src, n) and memmove(buf, buf + from, n):                *)
memcpy(dst, at, src, n) ==
    [k \in DOMAIN dst |-> IF at < k /\ k <= at + n THEN src[k - at] ELSE dst[k]]

memmove(area, from, n) ==
    [k \in DOMAIN area |-> IF k <= n THEN area[from + k] ELSE area[k]]

(* socket_buffer_write: [buffer, used, ret] *)
socket_buffer_write_mem(buffer, used, total, data) ==
    LET available == total - used
        write_len == Min(Len(data), available)
    IN IF available = 0 THEN [buffer |-> buffer, used |-> used, ret |-> 0]
       ELSE [buffer |-> memcpy(buffer, used, data, write_len),
             used |-> used + write_len, ret |-> write_len]

(* the read that leaves the remaining bytes where they are *)
socket_buffer_read_mem_NoMove(buffer, used, len) ==
    LET read_len == Min(len, used)
    IN IF used = 0 THEN [buffer |-> buffer, used |-> used, ret |-> 0, data |-> << >>]
       ELSE [buffer |-> buffer, used |-> used - read_len, ret |-> read_len,
             data |-> [k \in 1..read_len |-> buffer[k]]]

(* socket_buffer_read: [buffer, used, ret, data]; data is what lands in the *)
(* caller's buffer                                                          *)
socket_buffer_read_mem(buffer, used, len) ==
    LET read_len == Min(len, used)
    IN IF used = 0 THEN [buffer |-> buffer, used |-> used, ret |-> 0, data |-> << >>]
       ELSE [buffer |-> IF read_len < used
                        THEN memmove(buffer, read_len, used - read_len)
                        ELSE buffer,
             used |-> used - read_len, ret |-> read_len,
             data |-> [k \in 1..read_len |-> buffer[k]]]

(* the resize that stores the new capacities and keeps every used byte *)
socket_buffer_resize_NoClamp(sock, send_size, recv_size) ==
    [sock EXCEPT
       !.send_buf_size = IF send_size > 0 /\ send_size # @ THEN send_size ELSE @,
       !.recv_buf_size = IF recv_size > 0 /\ recv_size # @ THEN recv_size ELSE @]

(* socket_buffer_resize: a size of 0 leaves that buffer alone; used bytes   *)
(* beyond a smaller capacity are cut off                                    *)
socket_buffer_resize(sock, send_size, recv_size) ==
    LET s1 == IF send_size > 0 /\ send_size # sock.send_buf_size
              THEN [sock EXCEPT
                      !.send_buf_size = send_size,
                      !.send_buffer = IF Len(@) > send_size
                                      THEN SubSeq(@, 1, send_size) ELSE @]
              ELSE sock
    IN IF recv_size > 0 /\ recv_size # s1.recv_buf_size
       THEN [s1 EXCEPT
               !.recv_buf_size = recv_size,
               !.recv_buffer = IF Len(@) > recv_size
                               THEN SubSeq(@, 1, recv_size) ELSE @]
       ELSE s1

(* socket_buffer_clear: clear_send and clear_recv are C truth values *)
socket_buffer_clear(sock, clear_send, clear_recv) ==
    [sock EXCEPT !.send_buffer = IF clear_send # 0 THEN << >> ELSE @,
                 !.recv_buffer = IF clear_recv # 0 THEN << >> ELSE @]

(* ---------------- connect helpers (socket_accept_connect.c) ------------ *)
(* next_port is a uint16_t: the increment wraps at 65536 before the test    *)
(* "next_port > 65535" is made                                              *)
NextPort(np) ==
    LET inc == (np + 1) % 65536 IN IF inc > 65535 THEN EphemeralLow ELSE inc

RECURSIVE AutoBindLoop(_, _, _, _)
AutoBindLoop(L, i, np, k) ==
    IF k >= AutoBindTries THEN [list |-> L, next_port |-> np, result |-> -1]
    ELSE LET L1 == [L EXCEPT ![i].local_addr.sin_port = mysocket_htons(np)]
         IN IF ~socket_check_addr_in_use(L1, L1[i].local_addr, L1[i].fd)
            THEN [list |-> L1, next_port |-> NextPort(np), result |-> 0]
            ELSE AutoBindLoop(L1, i, NextPort(np), k + 1)

(* socket_auto_bind: [list, next_port, result] *)
socket_auto_bind(L, i, np) ==
    AutoBindLoop([L EXCEPT ![i].local_addr.sin_family = AF_INET,
                           ![i].local_addr.sin_addr = 0], i, np, 0)

(* the handshake without the search for a listening record *)
socket_simulate_tcp_handshake_NoSearch(L, i) ==
    IF L[i].peer_addr.sin_addr = 0 \/ L[i].peer_addr.sin_port = 0 THEN -1
    ELSE 0

(* socket_simulate_tcp_handshake: 0 or -1 *)
socket_simulate_tcp_handshake(L, i) ==
    IF L[i].peer_addr.sin_addr = 0 \/ L[i].peer_addr.sin_port = 0 THEN -1
    ELSE IF socket_find_listening_socket(L, L[i].peer_addr) = 0 THEN -1
    ELSE 0

(* the synthesized record without the copy of the listener's address *)
socket_simulate_incoming_connection_NoLocal(listen_sock, fd, rand_port) ==
    LET created == socket_create(fd, listen_sock.family, listen_sock.type,
                                 listen_sock.protocol)
    IN [created EXCEPT
          !.peer_addr = Addr(AF_INET, mysocket_htons(rand_port),
                             mysocket_htonl(2130706433)),
          !.state = SS_CONNECTED,
          !.tcp_state = IF created.protocol = IPPROTO_TCP
                        THEN TCP_ESTABLISHED ELSE @]

(* socket_simulate_incoming_connection: the record accept synthesizes *)
socket_simulate_incoming_connection(listen_sock, fd, rand_port) ==
    LET created == socket_create(fd, listen_sock.family, listen_sock.type,
                                 listen_sock.protocol)
    IN [created EXCEPT
          !.local_addr = listen_sock.local_addr,
          !.peer_addr = Addr(AF_INET, mysocket_htons(rand_port),
                             mysocket_htonl(2130706433)),
          !.state = SS_CONNECTED,
          !.tcp_state = IF created.protocol = IPPROTO_TCP
                        THEN TCP_ESTABLISHED ELSE @]

(* ---------------- state ------------------------------------------------- *)
VARIABLES
    socket_list,      \* g_socket_manager.socket_list, head first
    next_fd,          \* g_socket_manager.next_fd
    total_sockets,    \* g_socket_manager.total_sockets
    next_port,        \* the static cursor of socket_auto_bind
    last_error,       \* the calling thread's last_error
    counter,          \* the static call counter of socket_simulate_tcp_receive
    closed,           \* history: handles released by close, ever and since init
    thread,           \* per thread: its place in mysocket_socket and its handle
    returned,         \* history: the create calls that have returned, in order
    probe,            \* a record driven through tcp_state_transition
    buf,              \* a byte array driven through socket_buffer_write/read
    word,             \* a 16-bit and a 32-bit value driven through the byte swaps
    lock              \* socket_mutex: the thread inside socket_remove_from_manager, or 0

prog == <<socket_list, next_fd, total_sockets, next_port, last_error, counter>>

vars == <<socket_list, next_fd, total_sockets, next_port, last_error, counter,
          closed, thread, returned, probe, buf, word, lock>>

(* the program state as one value, so that calls compose *)
State ==
    [socket_list |-> socket_list, next_fd |-> next_fd,
     total_sockets |-> total_sockets, next_port |-> next_port,
     last_error |-> last_error, counter |-> counter]

(* threads that call mysocket_socket concurrently *)
NThreads == 2

Threads == 1..NThreads

(* the values before any byte swap is made *)
NoWord == [s |-> 0, l |-> <<0, 0, 0, 0>>, s0 |-> 0, l0 |-> <<0, 0, 0, 0>>]

(* the byte array before any buffer is allocated *)
NoBuffer == [buffer |-> << >>, used |-> 0, total |-> 0, queue |-> << >>]

Init ==
    /\ socket_list = << >>
    /\ next_fd = FirstFd
    /\ total_sockets = 0
    /\ next_port = EphemeralLow
    /\ last_error = 0
    /\ counter = 0
    /\ buf = NoBuffer
    /\ word = NoWord
    /\ lock = 0
    /\ closed = [ever |-> {}, life |-> {}]
    /\ thread = [t \in Threads |-> [pc |-> "idle", fd |-> 0, seen |-> {}]]
    /\ returned = << >>
    /\ probe = [sock |-> socket_create(FirstFd, AF_INET, SOCK_STREAM, IPPROTO_TCP),
                prev |-> TCP_CLOSED, event |-> 0]

(* What a public call leaves behind: the state, the value it returns and   *)
(* the bytes it stores in the caller's buffer.                             *)
Return(S, r) == [st |-> S, ret |-> r, out |-> << >>]

(* a failing call: the sentinel is returned, the code is recorded *)
Fail(S, code) == [st |-> [S EXCEPT !.last_error = code], ret |-> -1, out |-> << >>]

(* ---------------- socket_core.c ----------------------------------------- *)
(* the handle is read but the cursor is not advanced *)
FdAfterAlloc_NoIncrement(n) == n

(* socket_create: next_fd after "sock->fd = next_fd++" *)
FdAfterAlloc(n) == n + 1

mysocket_init(S) ==
    Return([S EXCEPT !.socket_list = << >>, !.next_fd = FirstFd,
                     !.total_sockets = 0], MYSOCKET_OK)

(* the teardown that drops the head of the list only *)
mysocket_cleanup_HeadOnly(S) ==
    Return([S EXCEPT !.socket_list = IF Len(@) > 0 THEN Tail(@) ELSE @,
                     !.total_sockets = 0], 0)

mysocket_cleanup(S) ==
    Return([S EXCEPT !.socket_list = << >>, !.total_sockets = 0], 0)

(* the inference that knows stream sockets only *)
InferProtocol_StreamOnly(type, protocol) ==
    IF protocol = 0
    THEN IF type = SOCK_STREAM THEN IPPROTO_TCP ELSE protocol
    ELSE protocol

(* the protocol mysocket_socket passes on to socket_create *)
InferProtocol(type, protocol) ==
    IF protocol = 0
    THEN IF type = SOCK_STREAM THEN IPPROTO_TCP
         ELSE IF type = SOCK_DGRAM THEN IPPROTO_UDP ELSE protocol
    ELSE protocol

mysocket_socket(S, domain, type, protocol) ==
    IF domain # AF_INET /\ domain # AF_UNIX THEN Fail(S, MYSOCKET_EINVAL)
    ELSE IF type # SOCK_STREAM /\ type # SOCK_DGRAM /\ type # SOCK_RAW
    THEN Fail(S, MYSOCKET_EINVAL)
    ELSE LET sock == socket_create(S.next_fd, domain, type,
                                   InferProtocol(type, protocol))
         IN Return([S EXCEPT !.next_fd = FdAfterAlloc(@),
                             !.socket_list = socket_add_to_manager(@, sock),
                             !.total_sockets = @ + 1],
                   sock.fd)

mysocket_close(S, sockfd) ==
    LET L == S.socket_list
        i == socket_find_by_fd(L, sockfd)
    IN IF i = 0 THEN Fail(S, MYSOCKET_EINVAL)
       ELSE LET L1 == IF L[i].type = SOCK_STREAM /\ L[i].state = SS_CONNECTED
                      THEN [tcp_send_fin(L, i).list EXCEPT ![i].tcp_state = TCP_FIN_WAIT1]
                      ELSE L
            IN Return([S EXCEPT !.socket_list = socket_remove_from_manager(L1, i),
                                !.total_sockets = @ - 1],
                      MYSOCKET_OK)

(* ---------------- socket_bind_listen.c ---------------------------------- *)
(* socket_addr_copy succeeds for an AF_INET source of sufficient length *)
socket_addr_copy_ok(src, addrlen) ==
    src.sin_family = AF_INET /\ addrlen >= SizeofAddrIn

(* the conflict test mysocket_bind makes before it copies the address *)
BindConflict(L, sock, addr) ==
    ~socket_addr_is_any(addr) /\ socket_check_addr_in_use(L, addr, sock.fd)

mysocket_bind(S, sockfd, addr, addrlen) ==
    LET L == S.socket_list
        i == socket_find_by_fd(L, sockfd)
    IN IF i = 0 THEN Fail(S, MYSOCKET_EINVAL)
       ELSE IF addrlen < SizeofAddrIn THEN Fail(S, MYSOCKET_EINVAL)
       ELSE IF L[i].state # SS_UNCONNECTED THEN Fail(S, MYSOCKET_EINVAL)
       ELSE IF BindConflict(L, L[i], addr) THEN Fail(S, MYSOCKET_EADDRINUSE)
       ELSE IF ~socket_addr_copy_ok(addr, addrlen) THEN Fail(S, MYSOCKET_EINVAL)
       ELSE Return([S EXCEPT !.socket_list =
                        [L EXCEPT ![i].local_addr = addr,
                                  ![i].state = SS_UNCONNECTED]],
                   MYSOCKET_OK)

(* the capacity without the upper limit *)
ListenBacklog_NoUpper(backlog) ==
    IF backlog <= 0 THEN DEFAULT_LISTEN_BACKLOG ELSE backlog

(* the queue capacity mysocket_listen stores for a requested backlog *)
ListenBacklog(backlog) ==
    IF backlog <= 0 THEN DEFAULT_LISTEN_BACKLOG
    ELSE IF backlog > DEFAULT_LISTEN_BACKLOG THEN DEFAULT_LISTEN_BACKLOG
    ELSE backlog

(* the listen that does not ask for a bound local port *)
mysocket_listen_NoPortCheck(S, sockfd, backlog) ==
    LET L == S.socket_list
        i == socket_find_by_fd(L, sockfd)
    IN IF i = 0 THEN Fail(S, MYSOCKET_EINVAL)
       ELSE IF L[i].type # SOCK_STREAM THEN Fail(S, MYSOCKET_EINVAL)
       ELSE IF L[i].state # SS_UNCONNECTED THEN Fail(S, MYSOCKET_EINVAL)
       ELSE Return([S EXCEPT !.socket_list =
                        [L EXCEPT
                           ![i].listen_queue = << >>,
                           ![i].listen_backlog = ListenBacklog(backlog),
                           ![i].listen_count = 0,
                           ![i].state = SS_LISTENING,
                           ![i].tcp_state = IF L[i].protocol = IPPROTO_TCP
                                            THEN TCP_LISTEN ELSE @]],
                   MYSOCKET_OK)

mysocket_listen(S, sockfd, backlog) ==
    LET L == S.socket_list
        i == socket_find_by_fd(L, sockfd)
    IN IF i = 0 THEN Fail(S, MYSOCKET_EINVAL)
       ELSE IF L[i].type # SOCK_STREAM THEN Fail(S, MYSOCKET_EINVAL)
       ELSE IF L[i].local_addr.sin_port = 0 THEN Fail(S, MYSOCKET_EINVAL)
       ELSE IF L[i].state # SS_UNCONNECTED THEN Fail(S, MYSOCKET_EINVAL)
       ELSE Return([S EXCEPT !.socket_list =
                        [L EXCEPT
                           ![i].listen_queue = << >>,
                           ![i].listen_backlog = ListenBacklog(backlog),
                           ![i].listen_count = 0,
                           ![i].state = SS_LISTENING,
                           ![i].tcp_state = IF L[i].protocol = IPPROTO_TCP
                                            THEN TCP_LISTEN ELSE @]],
                   MYSOCKET_OK)

(* the enqueue that still takes a connection when count equals backlog *)
socket_listen_queue_add_OffByOne(listen_sock, new_fd) ==
    IF listen_sock.listen_count > listen_sock.listen_backlog
    THEN [sock |-> listen_sock, result |-> -1]
    ELSE [sock |-> [listen_sock EXCEPT !.listen_queue = Append(@, new_fd),
                                       !.listen_count = @ + 1],
          result |-> 0]

(* socket_listen_queue_add: [sock, result]; the queue holds handles *)
socket_listen_queue_add(listen_sock, new_fd) ==
    IF listen_sock.listen_count >= listen_sock.listen_backlog
    THEN [sock |-> listen_sock, result |-> -1]
    ELSE [sock |-> [listen_sock EXCEPT !.listen_queue = Append(@, new_fd),
                                       !.listen_count = @ + 1],
          result |-> 0]

(* the dequeue that takes the newest pending connection *)
socket_listen_queue_remove_Newest(listen_sock) ==
    IF listen_sock.listen_count = 0 THEN [sock |-> listen_sock, removed |-> 0]
    ELSE [sock |-> [listen_sock EXCEPT
                       !.listen_queue = SubSeq(@, 1, Len(@) - 1),
                       !.listen_count = @ - 1],
          removed |-> listen_sock.listen_queue[Len(listen_sock.listen_queue)]]

(* socket_listen_queue_remove: [sock, removed]; removed is 0 for NULL *)
socket_listen_queue_remove(listen_sock) ==
    IF listen_sock.listen_count = 0 THEN [sock |-> listen_sock, removed |-> 0]
    ELSE [sock |-> [listen_sock EXCEPT !.listen_queue = Tail(@),
                                       !.listen_count = @ - 1],
          removed |-> Head(listen_sock.listen_queue)]

(* ---------------- socket_accept_connect.c ------------------------------- *)
(* the state mysocket_accept gives the record it returns *)
AcceptedState(sock) ==
    [sock EXCEPT !.state = SS_CONNECTED,
                 !.tcp_state = IF sock.protocol = IPPROTO_TCP
                               THEN TCP_ESTABLISHED ELSE @]

(* the accept that hands out a synthesized record without registering it *)
mysocket_accept_Unregistered(S, sockfd, rand_port) ==
    LET L == S.socket_list
        i == socket_find_by_fd(L, sockfd)
    IN IF i = 0 THEN Fail(S, MYSOCKET_EINVAL)
       ELSE IF L[i].state # SS_LISTENING THEN Fail(S, MYSOCKET_EINVAL)
       ELSE Return([S EXCEPT !.next_fd = FdAfterAlloc(@)], S.next_fd)

(* rand_port is the value of rand() % 30000 + 32768 *)
mysocket_accept(S, sockfd, rand_port) ==
    LET L == S.socket_list
        i == socket_find_by_fd(L, sockfd)
    IN IF i = 0 THEN Fail(S, MYSOCKET_EINVAL)
       ELSE IF L[i].state # SS_LISTENING THEN Fail(S, MYSOCKET_EINVAL)
       ELSE
         LET deq == socket_listen_queue_remove(L[i]) IN
         IF deq.removed # 0
         THEN LET L1 == [L EXCEPT ![i] = deq.sock]
                  j == socket_find_by_fd(L1, deq.removed)
              IN Return([S EXCEPT !.socket_list =
                            IF j = 0 THEN L1
                            ELSE [L1 EXCEPT ![j] = AcceptedState(L1[j])]],
                        deq.removed)
         ELSE LET new_sock == socket_simulate_incoming_connection(
                                  L[i], S.next_fd, rand_port)
              IN Return([S EXCEPT
                            !.next_fd = FdAfterAlloc(@),
                            !.socket_list =
                                socket_add_to_manager(@, AcceptedState(new_sock)),
                            !.total_sockets = @ + 1],
                        new_sock.fd)

mysocket_connect(S, sockfd, addr, addrlen) ==
    LET L == S.socket_list
        i == socket_find_by_fd(L, sockfd)
    IN IF i = 0 THEN Fail(S, MYSOCKET_EINVAL)
       ELSE IF addrlen < SizeofAddrIn THEN Fail(S, MYSOCKET_EINVAL)
       ELSE IF L[i].state # SS_UNCONNECTED THEN Fail(S, MYSOCKET_EINVAL)
       ELSE IF ~socket_addr_copy_ok(addr, addrlen) THEN Fail(S, MYSOCKET_EINVAL)
       ELSE
         LET L1 == [L EXCEPT ![i].peer_addr = addr]
             ab == IF L1[i].local_addr.sin_port = 0
                   THEN socket_auto_bind(L1, i, S.next_port)
                   ELSE [list |-> L1, next_port |-> S.next_port, result |-> 0]
             S1 == [S EXCEPT !.next_port = ab.next_port]
             L2 == [ab.list EXCEPT ![i].state = SS_CONNECTING]
             syn == tcp_send_syn(L2, i)
             L3 == [syn.list EXCEPT ![i].tcp_state = TCP_SYN_SENT]
         IN IF ab.result < 0
            THEN Fail([S1 EXCEPT !.socket_list = ab.list], MYSOCKET_ERROR)
            ELSE IF L2[i].protocol = IPPROTO_TCP
            THEN IF syn.result < 0
                 THEN Fail([S1 EXCEPT !.socket_list =
                               [syn.list EXCEPT ![i].state = SS_UNCONNECTED]],
                           MYSOCKET_ECONNREFUSED)
                 ELSE IF socket_simulate_tcp_handshake(L3, i) < 0
                 THEN Fail([S1 EXCEPT !.socket_list =
                               [L3 EXCEPT ![i].state = SS_UNCONNECTED,
                                          ![i].tcp_state = TCP_CLOSED]],
                           MYSOCKET_ECONNREFUSED)
                 ELSE Return([S1 EXCEPT !.socket_list =
                                 [L3 EXCEPT ![i].state = SS_CONNECTED,
                                            ![i].tcp_state = TCP_ESTABLISHED]],
                             MYSOCKET_OK)
            ELSE Return([S1 EXCEPT !.socket_list =
                            [L2 EXCEPT ![i].state = SS_CONNECTED]],
                        MYSOCKET_OK)

(* ---------------- socket_sendrecv.c ------------------------------------ *)
(* socket_send_udp_packet: [list, result]; the bytes reach the first        *)
(* datagram record that owns the peer address, cut to its free space        *)
socket_send_udp_packet(L, i, data) ==
    IF Len(data) = 0 THEN [list |-> L, result |-> -1]
    ELSE
      LET target == socket_find_udp_receiver(L, L[i].peer_addr)
          available == L[target].recv_buf_size - Len(L[target].recv_buffer)
          copy_len == Min(Len(data), available)
      IN IF target # 0 /\ target # i /\ available > 0
         THEN [list |-> [L EXCEPT ![target].recv_buffer =
                                     @ \o SubSeq(data, 1, copy_len)],
               result |-> Len(data)]
         ELSE [list |-> L, result |-> Len(data)]

(* socket_recv_udp_packet: [sock, data]; data is what lands in buf *)
socket_recv_udp_packet(sock, len) ==
    LET copy_len == Min(len, Len(sock.recv_buffer))
    IN IF len = 0 \/ Len(sock.recv_buffer) = 0 THEN [sock |-> sock, data |-> << >>]
       ELSE [sock |-> [sock EXCEPT !.recv_buffer =
                                      SubSeq(@, copy_len + 1, Len(@))],
             data |-> SubSeq(sock.recv_buffer, 1, copy_len)]

(* socket_flush_send_buffer: [list, result] *)
socket_flush_send_buffer(L, i) ==
    IF Len(L[i].send_buffer) = 0 THEN [list |-> L, result |-> 0]
    ELSE
      LET sent == IF L[i].protocol = IPPROTO_TCP
                  THEN tcp_send_data(L, i, L[i].send_buffer)
                  ELSE IF L[i].protocol = IPPROTO_UDP
                  THEN socket_send_udp_packet(L, i, L[i].send_buffer)
                  ELSE [list |-> L, result |-> 0]
      IN IF sent.result < 0 THEN [list |-> sent.list, result |-> -1]
         ELSE [list |-> [sent.list EXCEPT ![i].send_buffer = << >>],
               result |-> 0]

mysocket_send(S, sockfd, data) ==
    LET L == S.socket_list
        i == socket_find_by_fd(L, sockfd)
    IN IF i = 0 THEN Fail(S, MYSOCKET_EINVAL)
       ELSE IF Len(data) = 0 THEN Fail(S, MYSOCKET_EINVAL)
       ELSE IF L[i].state # SS_CONNECTED THEN Fail(S, MYSOCKET_EINVAL)
       ELSE IF L[i].send_buf_size - Len(L[i].send_buffer) = 0
       THEN Fail(S, MYSOCKET_EAGAIN)
       ELSE
         LET available == L[i].send_buf_size - Len(L[i].send_buffer)
             send_len == Min(Len(data), available)
             w == socket_buffer_write(L[i].send_buffer, L[i].send_buf_size,
                                      SubSeq(data, 1, send_len))
             L1 == [L EXCEPT ![i].send_buffer = w.buffer]
             fl == socket_flush_send_buffer(L1, i)
         IN IF fl.result < 0
            THEN Fail([S EXCEPT !.socket_list = fl.list], MYSOCKET_ERROR)
            ELSE Return([S EXCEPT !.socket_list = fl.list], w.written)

(* mysocket_sendto without the restore of the saved peer address *)
mysocket_sendto_NoRestore(S, sockfd, data, dest_addr, addrlen) ==
    LET L == S.socket_list
        i == socket_find_by_fd(L, sockfd)
    IN IF i = 0 THEN Fail(S, MYSOCKET_EINVAL)
       ELSE IF Len(data) = 0 \/ addrlen < SizeofAddrIn THEN Fail(S, MYSOCKET_EINVAL)
       ELSE IF L[i].type # SOCK_DGRAM THEN Fail(S, MYSOCKET_EINVAL)
       ELSE IF ~socket_addr_copy_ok(dest_addr, addrlen) THEN Fail(S, MYSOCKET_EINVAL)
       ELSE
         LET sent == socket_send_udp_packet([L EXCEPT ![i].peer_addr = dest_addr],
                                            i, data)
         IN IF sent.result < 0
            THEN Fail([S EXCEPT !.socket_list = sent.list], MYSOCKET_ERROR)
            ELSE Return([S EXCEPT !.socket_list = sent.list], sent.result)

mysocket_sendto(S, sockfd, data, dest_addr, addrlen) ==
    LET L == S.socket_list
        i == socket_find_by_fd(L, sockfd)
    IN IF i = 0 THEN Fail(S, MYSOCKET_EINVAL)
       ELSE IF Len(data) = 0 \/ addrlen < SizeofAddrIn THEN Fail(S, MYSOCKET_EINVAL)
       ELSE IF L[i].type # SOCK_DGRAM THEN Fail(S, MYSOCKET_EINVAL)
       ELSE IF ~socket_addr_copy_ok(dest_addr, addrlen) THEN Fail(S, MYSOCKET_EINVAL)
       ELSE
         LET original_peer == L[i].peer_addr
             sent == socket_send_udp_packet([L EXCEPT ![i].peer_addr = dest_addr],
                                            i, data)
             L2 == [sent.list EXCEPT ![i].peer_addr = original_peer]
         IN IF sent.result < 0
            THEN Fail([S EXCEPT !.socket_list = L2], MYSOCKET_ERROR)
            ELSE Return([S EXCEPT !.socket_list = L2], sent.result)

(* len is the size of the caller's buffer; out is what the call stores in it *)
mysocket_recvfrom(S, sockfd, len) ==
    LET L == S.socket_list
        i == socket_find_by_fd(L, sockfd)
    IN IF i = 0 THEN Fail(S, MYSOCKET_EINVAL)
       ELSE IF len = 0 THEN Fail(S, MYSOCKET_EINVAL)
       ELSE IF L[i].type # SOCK_DGRAM THEN Fail(S, MYSOCKET_EINVAL)
       ELSE LET got == socket_recv_udp_packet(L[i], len)
            IN [st |-> [S EXCEPT !.socket_list = [L EXCEPT ![i] = got.sock]],
                ret |-> Len(got.data), out |-> got.data]

(* "Hello from TCP simulation!", the bytes socket_simulate_tcp_receive makes *)
TestData ==
    <<72, 101, 108, 108, 111, 32, 102, 114, 111, 109, 32, 84, 67, 80, 32,
      115, 105, 109, 117, 108, 97, 116, 105, 111, 110, 33>>

(* socket_simulate_tcp_receive: [counter, data]; every TcpReceivePeriod-th  *)
(* call yields the test bytes.  The counter is kept modulo the period, the  *)
(* only way the code looks at it.                                           *)
socket_simulate_tcp_receive(cnt, len) ==
    LET c1 == (cnt + 1) % TcpReceivePeriod
    IN [counter |-> c1,
        data |-> IF c1 = 0 THEN SubSeq(TestData, 1, Min(len, Len(TestData)))
                 ELSE << >>]

(* socket_fill_recv_buffer: [sock, counter].  The free space is measured    *)
(* before the protocol's receive runs; for UDP that receive takes its bytes *)
(* out of the record's own receive buffer.                                  *)
socket_fill_recv_buffer(sock, cnt) ==
    LET available == sock.recv_buf_size - Len(sock.recv_buffer)
        tcp == socket_simulate_tcp_receive(cnt, TempDataSize)
        udp == socket_recv_udp_packet(sock, TempDataSize)
        sock1 == IF sock.protocol = IPPROTO_UDP THEN udp.sock ELSE sock
        data == IF sock.protocol = IPPROTO_TCP THEN tcp.data
                ELSE IF sock.protocol = IPPROTO_UDP THEN udp.data
                ELSE << >>
        cnt1 == IF sock.protocol = IPPROTO_TCP THEN tcp.counter ELSE cnt
        copy_len == Min(Len(data), available)
    IN IF available = 0 THEN [sock |-> sock, counter |-> cnt]
       ELSE IF Len(data) > 0
       THEN [sock |-> [sock1 EXCEPT !.recv_buffer = @ \o SubSeq(data, 1, copy_len)],
             counter |-> cnt1]
       ELSE [sock |-> sock1, counter |-> cnt1]

(* mysocket_recv with the read_len == 0 branch left out *)
mysocket_recv_ZeroIsSuccess(S, sockfd, len) ==
    LET L == S.socket_list
        i == socket_find_by_fd(L, sockfd)
    IN IF i = 0 THEN Fail(S, MYSOCKET_EINVAL)
       ELSE IF len = 0 THEN Fail(S, MYSOCKET_EINVAL)
       ELSE IF L[i].state # SS_CONNECTED THEN Fail(S, MYSOCKET_EINVAL)
       ELSE
         LET filled == socket_fill_recv_buffer(L[i], S.counter)
             rd == socket_buffer_read(filled.sock.recv_buffer, len)
             S1 == [S EXCEPT !.counter = filled.counter,
                             !.socket_list =
                                [L EXCEPT ![i] = [filled.sock EXCEPT
                                                    !.recv_buffer = rd.buffer]]]
         IN [st |-> S1, ret |-> Len(rd.data), out |-> rd.data]

(* len is the size of the caller's buffer; out is what the call stores in it *)
mysocket_recv(S, sockfd, len) ==
    LET L == S.socket_list
        i == socket_find_by_fd(L, sockfd)
    IN IF i = 0 THEN Fail(S, MYSOCKET_EINVAL)
       ELSE IF len = 0 THEN Fail(S, MYSOCKET_EINVAL)
       ELSE IF L[i].state # SS_CONNECTED THEN Fail(S, MYSOCKET_EINVAL)
       ELSE
         LET filled == socket_fill_recv_buffer(L[i], S.counter)
             rd == socket_buffer_read(filled.sock.recv_buffer, len)
             S1 == [S EXCEPT !.counter = filled.counter,
                             !.socket_list =
                                [L EXCEPT ![i] = [filled.sock EXCEPT
                                                    !.recv_buffer = rd.buffer]]]
         IN IF Len(rd.data) = 0 THEN Fail(S1, MYSOCKET_EAGAIN)
            ELSE [st |-> S1, ret |-> Len(rd.data), out |-> rd.data]

(* ---------------- inputs ------------------------------------------------ *)
(* handles the caller passes: one that is never issued and all that may be *)
FdInputs == (FirstFd - 1)..MaxFd

EphemeralPorts == { mysocket_htons(EphemeralLow + k) : k \in 0..(AutoBindTries - 1) }

(* every address a claim ranges over *)
Addrs ==
    { Addr(f, p, ip) : f \in {AF_INET, AF_UNIX},
                       p \in {0, PortA, PortB} \cup EphemeralPorts,
                       ip \in {INADDR_ANY, IpLoop, IpOther} }

(* payload bytes and the payloads of at most MaxMsgLen bytes *)
Bytes == { 1, 2 }

Payloads == UNION { [1..n -> Bytes] : n \in 1..MaxMsgLen }

(* values of rand() % 30000 + 32768 in socket_simulate_incoming_connection *)
RandPorts == { 40000 }

(* the step a call makes; handles are issued while next_fd <= cap *)
Step(R, cap) ==
    /\ R.st.next_fd <= cap + 1
    /\ socket_list' = R.st.socket_list
    /\ next_fd' = R.st.next_fd
    /\ total_sockets' = R.st.total_sockets
    /\ next_port' = R.st.next_port
    /\ last_error' = R.st.last_error
    /\ counter' = R.st.counter

Do(R) == Step(R, MaxFd)

(* ---------------- stream sockets, one registry lifetime ----------------- *)
CreateArgs == { <<AF_INET, SOCK_STREAM, 0>>, <<999, SOCK_STREAM, IPPROTO_TCP>> }

(* address and address length of the bind calls: full addresses, one of    *)
(* another family, and one that is too short                                *)
BindArgs ==
    { <<Addr(AF_INET, PortA, ip), SizeofAddrIn>> : ip \in {INADDR_ANY, IpLoop} }
    \cup { <<Addr(AF_INET, p, IpLoop), SizeofAddrIn>> : p \in EphemeralPorts }
    \cup { <<Addr(AF_UNIX, PortA, IpLoop), SizeofAddrIn>>,
           <<Addr(AF_INET, PortA, IpLoop), SizeofAddrIn - 8>> }

ConnectArgs ==
    { <<Addr(AF_INET, PortA, IpLoop), SizeofAddrIn>>,
      <<Addr(AF_UNIX, PortA, IpLoop), SizeofAddrIn>>,
      <<Addr(AF_INET, PortA, IpLoop), SizeofAddrIn - 8>> }

Backlogs == { 0 }

(* what a call of the single-threaded program leaves alone *)
Aux == UNCHANGED <<closed, thread, returned, probe, buf, word, lock>>

Cleanup == Do(mysocket_cleanup(State)) /\ Aux

Socket ==
    \E a \in CreateArgs : Do(mysocket_socket(State, a[1], a[2], a[3])) /\ Aux

Close == \E fd \in FdInputs : Do(mysocket_close(State, fd)) /\ Aux

Bind ==
    \E fd \in FdInputs, a \in BindArgs :
        Do(mysocket_bind(State, fd, a[1], a[2])) /\ Aux

Listen ==
    \E fd \in FdInputs, b \in Backlogs : Do(mysocket_listen(State, fd, b)) /\ Aux

Accept ==
    \E fd \in FdInputs, p \in RandPorts : Do(mysocket_accept(State, fd, p)) /\ Aux

Connect ==
    \E fd \in FdInputs, a \in ConnectArgs :
        Do(mysocket_connect(State, fd, a[1], a[2])) /\ Aux

Next == Cleanup \/ Socket \/ Close \/ Bind \/ Listen \/ Accept \/ Connect

Spec == Init /\ [][Next]_vars

(* ---------------- several registry lifetimes ---------------------------- *)
LifeAddr == Addr(AF_INET, PortA, INADDR_ANY)

LifeInit ==
    /\ Do(mysocket_init(State))
    /\ closed' = [closed EXCEPT !.life = {}]
    /\ UNCHANGED <<thread, returned, probe, buf, word, lock>>

LifeSocket == Do(mysocket_socket(State, AF_INET, SOCK_STREAM, 0)) /\ Aux

LifeBind ==
    \E fd \in FdInputs : Do(mysocket_bind(State, fd, LifeAddr, SizeofAddrIn)) /\ Aux

LifeListen == \E fd \in FdInputs : Do(mysocket_listen(State, fd, 0)) /\ Aux

LifeAccept ==
    \E fd \in FdInputs, p \in RandPorts : Do(mysocket_accept(State, fd, p)) /\ Aux

(* a close call; the handle is remembered when the call reports success *)
CloseOf(fd) ==
    LET R == mysocket_close(State, fd)
    IN /\ Do(R)
       /\ closed' = IF R.ret = MYSOCKET_OK
                    THEN [ever |-> closed.ever \cup {fd}, life |-> closed.life \cup {fd}]
                    ELSE closed
       /\ UNCHANGED <<thread, returned, probe, buf, word, lock>>

LifeClose == \E fd \in FdInputs : CloseOf(fd)

NextLife ==
    LifeInit \/ LifeSocket \/ LifeBind \/ LifeListen \/ LifeAccept \/ LifeClose

SpecLife == Init /\ [][NextLife]_vars

(* ---------------- concurrent creation (socket_core.c) ------------------- *)
(* entry of mysocket_socket: the arguments are valid *)
MTCall(t) ==
    /\ thread[t].pc = "idle"
    /\ next_fd <= MaxFd
    /\ thread' = [thread EXCEPT ![t] =
                     [pc |-> "alloc", fd |-> 0,
                      seen |-> { returned[k].fd : k \in 1..Len(returned) }]]
    /\ UNCHANGED <<prog, closed, returned, probe, buf, word, lock>>

(* socket_create: lock; sock->fd = next_fd++; unlock *)
MTAllocFd(t) ==
    /\ thread[t].pc = "alloc"
    /\ thread' = [thread EXCEPT ![t].pc = "add", ![t].fd = next_fd]
    /\ next_fd' = FdAfterAlloc(next_fd)
    /\ UNCHANGED <<socket_list, total_sockets, next_port, last_error, counter,
                   closed, returned, probe, buf, word, lock>>

(* socket_add_to_manager: lock; insert at the head; total_sockets++; unlock *)
MTAdd(t) ==
    /\ thread[t].pc = "add"
    /\ socket_list' = socket_add_to_manager(socket_list,
                          socket_create(thread[t].fd, AF_INET, SOCK_STREAM, IPPROTO_TCP))
    /\ total_sockets' = total_sockets + 1
    /\ thread' = [thread EXCEPT ![t].pc = "ret"]
    /\ UNCHANGED <<next_fd, next_port, last_error, counter,
                   closed, returned, probe, buf, word, lock>>

(* return sock->fd *)
MTReturn(t) ==
    /\ thread[t].pc = "ret"
    /\ returned' = Append(returned, [fd |-> thread[t].fd, by |-> t,
                                     seen |-> thread[t].seen])
    /\ thread' = [thread EXCEPT ![t].pc = "idle"]
    /\ UNCHANGED <<prog, closed, probe, buf, word, lock>>

(* an idle thread closes a handle some create call has returned *)
MTClose(t) ==
    /\ thread[t].pc = "idle"
    /\ \E k \in 1..Len(returned) : Do(mysocket_close(State, returned[k].fd))
    /\ UNCHANGED <<closed, thread, returned, probe, buf, word, lock>>

NextMT ==
    \E t \in Threads :
        MTCall(t) \/ MTAllocFd(t) \/ MTAdd(t) \/ MTReturn(t) \/ MTClose(t)

SpecMT == Init /\ [][NextMT]_vars

(* ---------------- the TCP state machine alone --------------------------- *)
TcpStates ==
    { TCP_ESTABLISHED, TCP_SYN_SENT, TCP_SYN_RECV, TCP_FIN_WAIT1, TCP_FIN_WAIT2,
      TCP_TIME_WAIT, TCP_CLOSED, TCP_CLOSE_WAIT, TCP_LAST_ACK, TCP_LISTEN,
      TCP_CLOSING }

(* the eight events and a value on either side of them *)
TcpEvents == (TCP_EVENT_LISTEN - 1)..(TCP_EVENT_TIMEOUT + 1)

InitTcp ==
    /\ socket_list = << >>
    /\ next_fd = FirstFd
    /\ total_sockets = 0
    /\ next_port = EphemeralLow
    /\ last_error = 0
    /\ counter = 0
    /\ buf = NoBuffer
    /\ word = NoWord
    /\ lock = 0
    /\ closed = [ever |-> {}, life |-> {}]
    /\ thread = [t \in Threads |-> [pc |-> "idle", fd |-> 0, seen |-> {}]]
    /\ returned = << >>
    /\ \E s \in TcpStates :
          probe = [sock |-> [socket_create(FirstFd, AF_INET, SOCK_STREAM, IPPROTO_TCP)
                                EXCEPT !.tcp_state = s],
                   prev |-> s, event |-> 0]

TcpEvent ==
    /\ \E e \in TcpEvents :
          probe' = [sock |-> tcp_state_transition(probe.sock, e),
                    prev |-> probe.sock.tcp_state, event |-> e]
    /\ UNCHANGED <<prog, closed, thread, returned, buf, word, lock>>

NextTcp == TcpEvent

SpecTcp == InitTcp /\ [][NextTcp]_vars

(* ---------------- stream data ------------------------------------------ *)
(* the payloads the data specifications send: one byte, and MaxMsgLen bytes *)
SentPayloads == { <<1>>, [k \in 1..MaxMsgLen |-> 1 + (k % 2)] }

StreamAddr == Addr(AF_INET, PortA, IpLoop)

StreamSocket == Do(mysocket_socket(State, AF_INET, SOCK_STREAM, 0)) /\ Aux

StreamBind ==
    \E fd \in FdInputs : Do(mysocket_bind(State, fd, LifeAddr, SizeofAddrIn)) /\ Aux

StreamListen == \E fd \in FdInputs : Do(mysocket_listen(State, fd, 1)) /\ Aux

StreamAccept ==
    \E fd \in FdInputs, p \in RandPorts : Do(mysocket_accept(State, fd, p)) /\ Aux

StreamConnect ==
    \E fd \in FdInputs : Do(mysocket_connect(State, fd, StreamAddr, SizeofAddrIn)) /\ Aux

StreamSend ==
    \E fd \in FdInputs, data \in SentPayloads : Do(mysocket_send(State, fd, data)) /\ Aux

StreamClose == \E fd \in FdInputs : Do(mysocket_close(State, fd)) /\ Aux

NextStream ==
    \/ StreamSocket \/ StreamBind \/ StreamListen \/ StreamAccept
    \/ StreamConnect \/ StreamSend \/ StreamClose

SpecStream == Init /\ [][NextStream]_vars

(* ---------------- datagrams --------------------------------------------- *)
DgramAddrs ==
    { Addr(AF_INET, PortA, IpLoop), Addr(AF_INET, PortB, IpLoop),
      Addr(AF_INET, PortB, INADDR_ANY) }

DgramFds == (FirstFd - 1)..MaxDgramFd

DgramSocket ==
    Step(mysocket_socket(State, AF_INET, SOCK_DGRAM, 0), MaxDgramFd) /\ Aux

DgramBind ==
    \E fd \in DgramFds, addr \in DgramAddrs :
        Step(mysocket_bind(State, fd, addr, SizeofAddrIn), MaxDgramFd) /\ Aux

DgramSendto ==
    \E fd \in DgramFds, data \in SentPayloads :
        Step(mysocket_sendto(State, fd, data, Addr(AF_INET, PortB, IpLoop),
                             SizeofAddrIn), MaxDgramFd) /\ Aux

DgramRecvfrom ==
    \E fd \in DgramFds, len \in {1, MaxMsgLen} :
        Step(mysocket_recvfrom(State, fd, len), MaxDgramFd) /\ Aux

NextDgram == DgramSocket \/ DgramBind \/ DgramSendto \/ DgramRecvfrom

SpecDgram == Init /\ [][NextDgram]_vars

(* ---------------- buffered data, both protocols ------------------------- *)
(* capacities handed to socket_buffer_resize: 0 keeps the buffer as it is,  *)
(* 1 shrinks it and BufSize grows it back                                   *)
ResizeArgs == { 0, 1, BufSize }

BufSocket ==
    \E type \in {SOCK_STREAM, SOCK_DGRAM} :
        Do(mysocket_socket(State, AF_INET, type, 0)) /\ Aux

BufBind ==
    \E fd \in FdInputs :
        Do(mysocket_bind(State, fd, StreamAddr, SizeofAddrIn)) /\ Aux

BufListen ==
    \E fd \in FdInputs : Do(mysocket_listen(State, fd, 1)) /\ Aux

BufAccept ==
    \E fd \in FdInputs, p \in RandPorts :
        Do(mysocket_accept(State, fd, p)) /\ Aux

BufConnect ==
    \E fd \in FdInputs :
        Do(mysocket_connect(State, fd, StreamAddr, SizeofAddrIn)) /\ Aux

BufSend ==
    \E fd \in FdInputs, data \in SentPayloads :
        Do(mysocket_send(State, fd, data)) /\ Aux

BufRecv ==
    \E fd \in FdInputs, len \in {1, MaxMsgLen} :
        Do(mysocket_recv(State, fd, len)) /\ Aux

BufSendto ==
    \E fd \in FdInputs, data \in SentPayloads :
        Do(mysocket_sendto(State, fd, data, StreamAddr, SizeofAddrIn))
        /\ Aux

BufRecvfrom ==
    \E fd \in FdInputs, len \in {1, MaxMsgLen} :
        Do(mysocket_recvfrom(State, fd, len)) /\ Aux

(* socket_buffer_resize and socket_buffer_clear applied to a live record *)
BufResize ==
    \E i \in 1..Len(socket_list), send_size \in ResizeArgs, recv_size \in ResizeArgs :
        /\ socket_list' = [socket_list EXCEPT
                              ![i] = socket_buffer_resize(@, send_size, recv_size)]
        /\ UNCHANGED <<next_fd, total_sockets, next_port, last_error, counter>>
        /\ Aux

BufClear ==
    \E i \in 1..Len(socket_list), clear_send \in {0, 1}, clear_recv \in {0, 1} :
        /\ socket_list' = [socket_list EXCEPT
                              ![i] = socket_buffer_clear(@, clear_send, clear_recv)]
        /\ UNCHANGED <<next_fd, total_sockets, next_port, last_error, counter>>
        /\ Aux

NextBuf ==
    \/ BufSocket \/ BufBind \/ BufListen \/ BufAccept \/ BufConnect
    \/ BufSend \/ BufRecv \/ BufSendto \/ BufRecvfrom \/ BufResize \/ BufClear

SpecBuf == Init /\ [][NextBuf]_vars

(* ---------------- one buffer, written and read --------------------------- *)
(* what malloc may leave in a fresh area *)
FreshBytes == { 0, 1, 2 }

(* a fresh area of 1..MaxArea bytes, nothing used; queue is the history of  *)
(* the bytes accepted and not yet read, kept as the reference queue          *)
InitBuffer ==
    /\ socket_list = << >>
    /\ next_fd = FirstFd
    /\ total_sockets = 0
    /\ next_port = EphemeralLow
    /\ last_error = 0
    /\ counter = 0
    /\ closed = [ever |-> {}, life |-> {}]
    /\ thread = [t \in Threads |-> [pc |-> "idle", fd |-> 0, seen |-> {}]]
    /\ returned = << >>
    /\ probe = [sock |-> socket_create(FirstFd, AF_INET, SOCK_STREAM, IPPROTO_TCP),
                prev |-> TCP_CLOSED, event |-> 0]
    /\ \E total \in 1..MaxArea, fill \in FreshBytes :
          buf = [buffer |-> [k \in 1..total |-> fill], used |-> 0,
                 total |-> total, queue |-> << >>]
    /\ word = NoWord
    /\ lock = 0

BufferWrite ==
    /\ \E data \in Payloads \cup { << >> } :
          LET w == socket_buffer_write_mem(buf.buffer, buf.used, buf.total, data)
          IN buf' = [buffer |-> w.buffer, used |-> w.used, total |-> buf.total,
                     queue |-> buf.queue \o
                               SubSeq(data, 1, Min(Len(data),
                                                   buf.total - Len(buf.queue)))]
    /\ UNCHANGED <<prog, closed, thread, returned, probe, word, lock>>

BufferRead ==
    /\ \E len \in 0..MaxMsgLen :
          LET r == socket_buffer_read_mem(buf.buffer, buf.used, len)
          IN buf' = [buffer |-> r.buffer, used |-> r.used, total |-> buf.total,
                     queue |-> SubSeq(buf.queue, Min(len, Len(buf.queue)) + 1,
                                      Len(buf.queue))]
    /\ UNCHANGED <<prog, closed, thread, returned, probe, word, lock>>

NextBuffer == BufferWrite \/ BufferRead

SpecBuffer == InitBuffer /\ [][NextBuffer]_vars

(* ---------------- the pending queue of a listener ------------------------ *)
(* backlogs small enough for the queue to fill *)
QueueBacklogs == 1..MaxBacklog

QueueSocket == Do(mysocket_socket(State, AF_INET, SOCK_STREAM, 0)) /\ Aux

QueueBind ==
    \E fd \in FdInputs : Do(mysocket_bind(State, fd, StreamAddr, SizeofAddrIn)) /\ Aux

QueueListen ==
    \E fd \in FdInputs, b \in QueueBacklogs : Do(mysocket_listen(State, fd, b)) /\ Aux

(* socket_listen_queue_add(listener, record) for a listening record and any *)
(* live record; the call's result is dropped, the listener is kept          *)
QueueAdd ==
    \E i \in 1..Len(socket_list), j \in 1..Len(socket_list) :
        /\ socket_list[i].state = SS_LISTENING
        /\ socket_list' = [socket_list EXCEPT ![i] =
                              socket_listen_queue_add(@, socket_list[j].fd).sock]
        /\ UNCHANGED <<next_fd, total_sockets, next_port, last_error, counter>>
        /\ Aux

QueueAccept ==
    \E fd \in FdInputs, p \in RandPorts : Do(mysocket_accept(State, fd, p)) /\ Aux

NextQueue == QueueSocket \/ QueueBind \/ QueueListen \/ QueueAdd \/ QueueAccept

SpecQueue == Init /\ [][NextQueue]_vars

(* ---------------- listen on records of every kind ------------------------ *)
(* type and protocol of the records: TCP stream, UDP datagram, and a stream *)
(* record that names the UDP protocol                                       *)
ListenCreateArgs ==
    { <<SOCK_STREAM, 0>>, <<SOCK_DGRAM, 0>>, <<SOCK_STREAM, IPPROTO_UDP>> }

ListenAddrs == { Addr(AF_INET, PortA, IpLoop), Addr(AF_INET, PortB, IpLoop) }

(* backlogs below, at and above the limits *)
ListenBacklogs ==
    { -1, 0, 1, DEFAULT_LISTEN_BACKLOG, DEFAULT_LISTEN_BACKLOG + 1 }

ListenSocket ==
    \E a \in ListenCreateArgs : Do(mysocket_socket(State, AF_INET, a[1], a[2])) /\ Aux

ListenBind ==
    \E fd \in FdInputs, addr \in ListenAddrs :
        Do(mysocket_bind(State, fd, addr, SizeofAddrIn)) /\ Aux

ListenConnect ==
    \E fd \in FdInputs :
        Do(mysocket_connect(State, fd, StreamAddr, SizeofAddrIn)) /\ Aux

ListenListen ==
    \E fd \in FdInputs, b \in ListenBacklogs :
        Do(mysocket_listen(State, fd, b)) /\ Aux

ListenClose == \E fd \in FdInputs : Do(mysocket_close(State, fd)) /\ Aux

NextListen ==
    ListenSocket \/ ListenBind \/ ListenConnect \/ ListenListen \/ ListenClose

SpecListen == Init /\ [][NextListen]_vars

(* ---------------- every public call, mixed families and protocols ------ *)
(* domain, type and protocol of the create calls: inferred protocols, a     *)
(* datagram record that names TCP, and a domain and a type the call refuses *)
ApiCreateArgs ==
    { <<AF_INET, SOCK_STREAM, 0>>, <<AF_INET, SOCK_DGRAM, 0>>,
      <<AF_INET, SOCK_DGRAM, IPPROTO_TCP>>,
      <<999, SOCK_STREAM, 0>>, <<AF_INET, 7, 0>> }

(* receive calls that pull simulated TCP data, counted by the pull counter *)
MaxPulls == 2

(* handles of the data calls: one that is never issued and the first one *)
ApiDataFds == { FirstFd - 1, FirstFd }

ApiSocket ==
    \E a \in ApiCreateArgs : Do(mysocket_socket(State, a[1], a[2], a[3])) /\ Aux

ApiBind ==
    \E fd \in FdInputs :
        Do(mysocket_bind(State, fd, StreamAddr, SizeofAddrIn)) /\ Aux

ApiListen ==
    \E fd \in FdInputs : Do(mysocket_listen(State, fd, 1)) /\ Aux

ApiAccept ==
    \E fd \in FdInputs, p \in RandPorts :
        Do(mysocket_accept(State, fd, p)) /\ Aux

ApiConnect ==
    \E fd \in FdInputs :
        Do(mysocket_connect(State, fd, StreamAddr, SizeofAddrIn)) /\ Aux

(* close; the handles it released are remembered *)
ApiClose == \E fd \in FdInputs : CloseOf(fd)

ApiSend ==
    \E fd \in ApiDataFds : Do(mysocket_send(State, fd, <<1>>)) /\ Aux

ApiRecv ==
    /\ counter < MaxPulls
    /\ \E fd \in ApiDataFds : Do(mysocket_recv(State, fd, 1)) /\ Aux

ApiSendto ==
    \E fd \in ApiDataFds :
        Do(mysocket_sendto(State, fd, <<1>>, StreamAddr, SizeofAddrIn)) /\ Aux

ApiRecvfrom ==
    /\ counter < MaxPulls
    /\ \E fd \in ApiDataFds : Do(mysocket_recvfrom(State, fd, 1)) /\ Aux

ApiCleanup == Do(mysocket_cleanup(State)) /\ Aux

NextApi ==
    \/ ApiSocket \/ ApiBind \/ ApiListen \/ ApiAccept \/ ApiConnect
    \/ ApiClose \/ ApiSend \/ ApiRecv \/ ApiSendto \/ ApiRecvfrom
    \/ ApiCleanup

SpecApi == Init /\ [][NextApi]_vars

(* ---------------- the byte-order routines ------------------------------- *)
(* every uint16_t value; bytes at the edges of the range and the uint32_t   *)
(* values made of them                                                      *)
Shorts == 0..65535
EdgeBytes == { 0, 1, 127, 128, 255 }
Longs == [1..4 -> EdgeBytes]

InitBytes ==
    /\ socket_list = << >>
    /\ next_fd = FirstFd
    /\ total_sockets = 0
    /\ next_port = EphemeralLow
    /\ last_error = 0
    /\ counter = 0
    /\ closed = [ever |-> {}, life |-> {}]
    /\ thread = [t \in Threads |-> [pc |-> "idle", fd |-> 0, seen |-> {}]]
    /\ returned = << >>
    /\ probe = [sock |-> socket_create(FirstFd, AF_INET, SOCK_STREAM, IPPROTO_TCP),
                prev |-> TCP_CLOSED, event |-> 0]
    /\ buf = NoBuffer
    /\ lock = 0
    /\ \/ \E p \in Shorts : word = [s |-> p, l |-> <<0, 0, 0, 0>>, s0 |-> p,
                                   l0 |-> <<0, 0, 0, 0>>]
       \/ \E x \in Longs : word = [s |-> 0, l |-> x, s0 |-> 0, l0 |-> x]

Frame == UNCHANGED <<prog, closed, thread, returned, probe, buf, lock>>

Htons == word' = [word EXCEPT !.s = mysocket_htons(@)] /\ Frame

Ntohs == word' = [word EXCEPT !.s = mysocket_ntohs(@)] /\ Frame

Htonl == word' = [word EXCEPT !.l = mysocket_htonl_wide(@)] /\ Frame

Ntohl == word' = [word EXCEPT !.l = mysocket_ntohl_wide(@)] /\ Frame

NextBytes == Htons \/ Ntohs \/ Htonl \/ Ntohl

SpecBytes == InitBytes /\ [][NextBytes]_vars

(* ---------------- threads calling bind, close and send ----------------- *)
(* calls the threads make, all together                                     *)
MaxCalls == 3

(* The registry holds the records of handles FirstFd..MaxFd, all stream and *)
(* unconnected.  last_error is the __thread variable: one slot per thread.  *)
(* thread[t] holds the thread's place in its call, the record pointer       *)
(* socket_find_by_fd gave it (sock, named by the record's handle), and the  *)
(* history of the thread: the result of its last call, the code of its last *)
(* failing call, the records that held the address when its bind looked,    *)
(* and whether it touched freed memory.  closed.ever is the set of records  *)
(* socket_destroy has freed.                                                *)
RaceFds == FirstFd..MaxFd

RaceOps == { "bind", "close", "send" }

Idle == [pc |-> "idle", op |-> "none", sock |-> 0, ret |-> 0,
         failed |-> 0, others |-> {}, bad |-> "none", calls |-> 0]

InitRace ==
    /\ socket_list = [k \in 1..(MaxFd - FirstFd + 1) |->
                         socket_create(MaxFd + 1 - k, AF_INET, SOCK_STREAM,
                                       IPPROTO_TCP)]
    /\ next_fd = MaxFd + 1
    /\ total_sockets = MaxFd - FirstFd + 1
    /\ next_port = EphemeralLow
    /\ last_error = [t \in Threads |-> 0]
    /\ counter = 0
    /\ closed = [ever |-> {}, life |-> {}]
    /\ thread = [t \in Threads |-> Idle]
    /\ returned = << >>
    /\ probe = [sock |-> socket_create(FirstFd, AF_INET, SOCK_STREAM, IPPROTO_TCP),
                prev |-> TCP_CLOSED, event |-> 0]
    /\ buf = NoBuffer
    /\ word = NoWord
    /\ lock = 0

(* calls made so far by threads 1..n *)
RECURSIVE CallsMade(_)
CallsMade(n) == IF n = 0 THEN 0 ELSE thread[n].calls + CallsMade(n - 1)

(* calls that have not returned *)
CallsOpen == Cardinality({ t \in Threads : thread[t].pc # "idle" })

(* socket_set_error in thread t *)
socket_set_error_Shared(E, t, error_code) == [u \in DOMAIN E |-> error_code]

socket_set_error(E, t, error_code) == [E EXCEPT ![t] = error_code]

(* the record has been freed by socket_destroy *)
Freed(fd) == fd \in closed.ever

(* the call of thread t returns r *)
RaceReturn(t, r) ==
    thread' = [thread EXCEPT ![t].pc = "idle", ![t].ret = r,
                             ![t].calls = @ + 1]

(* the call of thread t fails with code *)
RaceFail(t, code) ==
    /\ thread' = [thread EXCEPT ![t].pc = "idle", ![t].ret = -1,
                                ![t].failed = code, ![t].calls = @ + 1]
    /\ last_error' = socket_set_error(last_error, t, code)

RaceRest == UNCHANGED <<next_fd, next_port, counter, returned, probe, buf, word>>

(* entry of bind, close or send: socket_find_by_fd, under the lock *)
RaceLookup(t) ==
    /\ thread[t].pc = "idle"
    /\ CallsMade(NThreads) + CallsOpen < MaxCalls
    /\ lock = 0
    /\ \E op \in RaceOps, fd \in RaceFds :
          IF socket_find_by_fd(socket_list, fd) = 0
          THEN /\ thread' = [thread EXCEPT ![t].pc = "idle", ![t].op = op,
                                ![t].sock = 0, ![t].ret = -1,
                                ![t].failed = MYSOCKET_EINVAL,
                                ![t].others = {}, ![t].calls = @ + 1]
               /\ last_error' = socket_set_error(last_error, t, MYSOCKET_EINVAL)
          ELSE /\ thread' = [thread EXCEPT ![t].pc = op \o "_check", ![t].op = op,
                                ![t].sock = fd,
                                ![t].others = {}]
               /\ UNCHANGED last_error
    /\ UNCHANGED <<socket_list, total_sockets, closed, lock>>
    /\ RaceRest

(* places where the call reads or writes *sock *)
UsePcs == { "bind_check", "bind_scan", "bind_commit", "close_check", "send_check" }

(* the record was freed in the meantime: the access is undefined, the call  *)
(* ends with either result                                                  *)
RaceUseFreed(t) ==
    /\ thread[t].pc \in UsePcs
    /\ Freed(thread[t].sock)
    /\ \E r \in { -1, 0 } :
          thread' = [thread EXCEPT ![t].pc = "idle", ![t].ret = r,
                                   ![t].bad = "use", ![t].calls = @ + 1]
    /\ UNCHANGED <<socket_list, total_sockets, last_error, closed, lock>>
    /\ RaceRest

(* mysocket_bind: sock->state is read; the address is specific *)
BindCheck(t) ==
    /\ thread[t].pc = "bind_check"
    /\ ~Freed(thread[t].sock)
    /\ thread' = [thread EXCEPT ![t].pc = "bind_scan"]
    /\ UNCHANGED <<socket_list, total_sockets, last_error, closed, lock>>
    /\ RaceRest

(* socket_check_addr_in_use(addr, sock->fd): the list is walked with no     *)
(* lock taken                                                               *)
BindScan(t) ==
    /\ thread[t].pc = "bind_scan"
    /\ ~Freed(thread[t].sock)
    /\ LET holders == { socket_list[i].fd : i \in
                          { j \in 1..Len(socket_list) :
                              /\ socket_list[j].fd # thread[t].sock
                              /\ socket_list[j].local_addr = StreamAddr } }
       IN IF socket_check_addr_in_use(socket_list, StreamAddr, thread[t].sock)
          THEN /\ thread' = [thread EXCEPT ![t].pc = "idle", ![t].ret = -1,
                                ![t].failed = MYSOCKET_EADDRINUSE,
                                ![t].others = holders, ![t].calls = @ + 1]
               /\ last_error' = socket_set_error(last_error, t, MYSOCKET_EADDRINUSE)
          ELSE /\ thread' = [thread EXCEPT ![t].pc = "bind_commit",
                                           ![t].others = holders]
               /\ UNCHANGED last_error
    /\ UNCHANGED <<socket_list, total_sockets, closed, lock>>
    /\ RaceRest

(* socket_addr_copy(&sock->local_addr, ...); return MYSOCKET_OK.  A record  *)
(* that is unlinked but not yet freed is written too, outside the list.     *)
BindCommit(t) ==
    /\ thread[t].pc = "bind_commit"
    /\ ~Freed(thread[t].sock)
    /\ LET i == socket_find_by_fd(socket_list, thread[t].sock)
       IN socket_list' = IF i = 0 THEN socket_list
                         ELSE [socket_list EXCEPT ![i].local_addr = StreamAddr]
    /\ RaceReturn(t, MYSOCKET_OK)
    /\ UNCHANGED <<total_sockets, last_error, closed, lock>>
    /\ RaceRest

(* mysocket_close: sock->type and sock->state are read; no record here is   *)
(* connected, so no FIN is sent                                             *)
CloseCheck(t) ==
    /\ thread[t].pc = "close_check"
    /\ ~Freed(thread[t].sock)
    /\ thread' = [thread EXCEPT ![t].pc = "close_lock"]
    /\ UNCHANGED <<socket_list, total_sockets, last_error, closed, lock>>
    /\ RaceRest

(* socket_remove_from_manager: pthread_mutex_lock *)
CloseLock(t) ==
    /\ thread[t].pc = "close_lock"
    /\ lock = 0
    /\ lock' = t
    /\ thread' = [thread EXCEPT ![t].pc = "close_unlink"]
    /\ UNCHANGED <<socket_list, total_sockets, last_error, closed>>
    /\ RaceRest

(* socket_remove_from_manager: the walk that unlinks sock if it is still in *)
(* the list, then pthread_mutex_unlock                                      *)
CloseUnlink(t) ==
    /\ thread[t].pc = "close_unlink"
    /\ lock = t
    /\ LET i == socket_find_by_fd(socket_list, thread[t].sock)
       IN IF i = 0 THEN UNCHANGED <<socket_list, total_sockets>>
          ELSE /\ socket_list' = socket_remove_from_manager(socket_list, i)
               /\ total_sockets' = total_sockets - 1
    /\ lock' = 0
    /\ thread' = [thread EXCEPT ![t].pc = "close_destroy"]
    /\ UNCHANGED <<last_error, closed>>
    /\ RaceRest

(* socket_destroy(sock); return MYSOCKET_OK.  A record that is already      *)
(* freed is freed again.                                                     *)
CloseDestroy(t) ==
    /\ thread[t].pc = "close_destroy"
    /\ IF Freed(thread[t].sock)
       THEN /\ thread' = [thread EXCEPT ![t].pc = "idle", ![t].ret = MYSOCKET_OK,
                             ![t].bad = "destroy", ![t].calls = @ + 1]
            /\ UNCHANGED closed
       ELSE /\ RaceReturn(t, MYSOCKET_OK)
            /\ closed' = [closed EXCEPT !.ever = @ \cup { thread[t].sock }]
    /\ UNCHANGED <<socket_list, total_sockets, last_error, lock>>
    /\ RaceRest

(* mysocket_send: sock->state is read; the record is not connected *)
SendCheck(t) ==
    /\ thread[t].pc = "send_check"
    /\ ~Freed(thread[t].sock)
    /\ RaceFail(t, MYSOCKET_EINVAL)
    /\ UNCHANGED <<socket_list, total_sockets, closed, lock>>
    /\ RaceRest

NextRace ==
    \E t \in Threads :
        \/ RaceLookup(t) \/ RaceUseFreed(t)
        \/ BindCheck(t) \/ BindScan(t) \/ BindCommit(t)
        \/ CloseCheck(t) \/ CloseLock(t) \/ CloseUnlink(t) \/ CloseDestroy(t)
        \/ SendCheck(t)

SpecRace == InitRace /\ [][NextRace]_vars

(* ---------------- the ephemeral-port cursor ----------------------------- *)
EphemeralHigh == 65535

(* auto-binds followed from one starting value of the port cursor *)
MaxAutoBinds == 3

(* values of the cursor: the first one, and the one 32766 auto-binds later  *)
PortCursors == { EphemeralLow, EphemeralHigh - 1 }

(* local addresses bound by hand: the ports the cursor is about to try *)
PortBindAddrs ==
    { Addr(AF_INET, mysocket_htons(q), IpLoop) :
        q \in { EphemeralLow, EphemeralHigh - 1, EphemeralHigh } }

PortTarget == Addr(AF_INET, PortA, IpLoop)

InitPort ==
    /\ socket_list = << >>
    /\ next_fd = FirstFd
    /\ total_sockets = 0
    /\ next_port \in PortCursors
    /\ last_error = 0
    /\ counter = 0
    /\ closed = [ever |-> {}, life |-> {}]
    /\ thread = [t \in Threads |-> [pc |-> "idle", fd |-> 0, seen |-> {}]]
    /\ returned = << >>
    /\ probe = [sock |-> socket_create(FirstFd, AF_INET, SOCK_STREAM, IPPROTO_TCP),
                prev |-> TCP_CLOSED, event |-> 0]
    /\ buf = NoBuffer
    /\ word = NoWord
    /\ lock = 0

PortSocket == Do(mysocket_socket(State, AF_INET, SOCK_DGRAM, 0)) /\ Aux

PortBind ==
    \E fd \in FdInputs, a \in PortBindAddrs :
        Do(mysocket_bind(State, fd, a, SizeofAddrIn)) /\ Aux

(* the cursor has moved fewer than MaxAutoBinds places from where it began *)
CursorOpen ==
    \E c \in PortCursors : (next_port - c) % 65536 < MaxAutoBinds

PortConnect ==
    /\ CursorOpen
    /\ \E fd \in FdInputs :
          Do(mysocket_connect(State, fd, PortTarget, SizeofAddrIn)) /\ Aux

PortClose == \E fd \in FdInputs : Do(mysocket_close(State, fd)) /\ Aux

(* the registry is set up again; the static cursor keeps its value *)
PortInit == Do(mysocket_init(State)) /\ Aux

NextPortStep == PortSocket \/ PortBind \/ PortConnect \/ PortClose \/ PortInit

SpecPort == InitPort /\ [][NextPortStep]_vars

(* ---------------- enqueues and dequeues on a listener -------------------- *)
(* successful enqueues followed, over all listeners *)
MaxEnqueues == 3

(* returned holds <<listener, record>> for every successful enqueue, oldest *)
(* first; nothing is ever taken out of it                                   *)
FifoFrame == UNCHANGED <<closed, thread, probe, buf, word, lock>>

FifoSocket ==
    Do(mysocket_socket(State, AF_INET, SOCK_STREAM, 0)) /\ returned' = returned
        /\ FifoFrame

FifoBind ==
    \E fd \in FdInputs :
        Do(mysocket_bind(State, fd, StreamAddr, SizeofAddrIn))
            /\ returned' = returned /\ FifoFrame

FifoListen ==
    \E fd \in FdInputs, b \in QueueBacklogs :
        Do(mysocket_listen(State, fd, b)) /\ returned' = returned /\ FifoFrame

(* socket_listen_queue_add(listener, record) for a listening record and any *)
(* live record                                                              *)
FifoAdd ==
    \E i \in 1..Len(socket_list), j \in 1..Len(socket_list) :
        /\ Len(returned) < MaxEnqueues
        /\ socket_list[i].state = SS_LISTENING
        /\ LET a == socket_listen_queue_add(socket_list[i], socket_list[j].fd)
           IN /\ socket_list' = [socket_list EXCEPT ![i] = a.sock]
              /\ returned' = IF a.result = 0
                             THEN Append(returned,
                                         <<socket_list[i].fd, socket_list[j].fd>>)
                             ELSE returned
        /\ UNCHANGED <<next_fd, total_sockets, next_port, last_error, counter>>
        /\ FifoFrame

(* socket_listen_queue_remove(listener); the record it returns is dropped *)
FifoRemove ==
    \E i \in 1..Len(socket_list) :
        /\ socket_list[i].state = SS_LISTENING
        /\ socket_list' = [socket_list EXCEPT ![i] =
                              socket_listen_queue_remove(@).sock]
        /\ UNCHANGED <<next_fd, total_sockets, next_port, last_error, counter,
                       returned>>
        /\ FifoFrame

FifoAccept ==
    \E fd \in FdInputs, p \in RandPorts :
        Do(mysocket_accept(State, fd, p)) /\ returned' = returned /\ FifoFrame

NextFifo ==
    FifoSocket \/ FifoBind \/ FifoListen \/ FifoAdd \/ FifoRemove \/ FifoAccept

SpecFifo == Init /\ [][NextFifo]_vars

(* ---------------- a datagram record draining its receive buffer --------- *)
(* sendto and recv calls followed, all together *)
MaxDrainCalls == 3

(* receive capacities: one a few bytes wide, one that holds temp_data twice *)
DrainSizes == { 3, 2 * TempDataSize + 2 }

(* a payload that fills temp_data, with bytes that tell positions apart *)
BigPayload == [k \in 1..TempDataSize |-> 3 + (k % 200)]

DrainPayloads == { <<1>>, <<2>>, BigPayload }

(* sizes of the caller's buffer *)
DrainLens == { 1, TempDataSize }

DrainPeer == Addr(AF_INET, PortB, IpLoop)

(* returned holds one entry for each sendto and recv call made *)
DrainFrame ==
    /\ returned' = returned
    /\ UNCHANGED <<closed, thread, probe, buf, word, lock>>

DrainSocket == Do(mysocket_socket(State, AF_INET, SOCK_DGRAM, 0)) /\ DrainFrame

DrainBind ==
    \E fd \in FdInputs :
        Do(mysocket_bind(State, fd, StreamAddr, SizeofAddrIn)) /\ DrainFrame

DrainConnect ==
    \E fd \in FdInputs :
        Do(mysocket_connect(State, fd, DrainPeer, SizeofAddrIn)) /\ DrainFrame

(* socket_buffer_resize of the receive buffer; the send buffer is kept *)
DrainResize ==
    \E i \in 1..Len(socket_list), recv_size \in DrainSizes :
        /\ socket_list' = [socket_list EXCEPT
                              ![i] = socket_buffer_resize(@, 0, recv_size)]
        /\ UNCHANGED <<next_fd, total_sockets, next_port, last_error, counter>>
        /\ DrainFrame

DrainSendto ==
    \E fd \in FdInputs, data \in DrainPayloads :
        LET R == mysocket_sendto(State, fd, data, StreamAddr, SizeofAddrIn)
        IN /\ Len(returned) < MaxDrainCalls
           /\ Do(R)
           /\ returned' = Append(returned, 1)
           /\ UNCHANGED <<closed, thread, probe, buf, word, lock>>

DrainRecv ==
    \E fd \in FdInputs, len \in DrainLens :
        LET R == mysocket_recv(State, fd, len)
        IN /\ Len(returned) < MaxDrainCalls
           /\ Do(R)
           /\ returned' = Append(returned, 1)
           /\ UNCHANGED <<closed, thread, probe, buf, word, lock>>

NextDrain ==
    \/ DrainSocket \/ DrainBind \/ DrainConnect \/ DrainResize
    \/ DrainSendto \/ DrainRecv

SpecDrain == Init /\ [][NextDrain]_vars

(* ---------------- listeners, clients and accepted records --------------- *)
PendSocket == Do(mysocket_socket(State, AF_INET, SOCK_STREAM, 0)) /\ Aux

PendBind ==
    \E fd \in FdInputs :
        Do(mysocket_bind(State, fd, StreamAddr, SizeofAddrIn)) /\ Aux

PendListen ==
    \E fd \in FdInputs, b \in QueueBacklogs :
        Do(mysocket_listen(State, fd, b)) /\ Aux

PendConnect ==
    \E fd \in FdInputs, a \in ListenAddrs :
        Do(mysocket_connect(State, fd, a, SizeofAddrIn)) /\ Aux

PendAccept ==
    \E fd \in FdInputs, p \in RandPorts :
        Do(mysocket_accept(State, fd, p)) /\ Aux

PendClose == \E fd \in FdInputs : Do(mysocket_close(State, fd)) /\ Aux

NextPending ==
    PendSocket \/ PendBind \/ PendListen \/ PendConnect \/ PendAccept \/ PendClose

SpecPending == Init /\ [][NextPending]_vars

(* ---------------- registry bookkeeping --------------------------------- *)
(* init, create, bind, listen, accept, close and teardown in any order *)
NextRegistry ==
    LifeInit \/ LifeSocket \/ LifeBind \/ LifeListen \/ LifeAccept
      \/ LifeClose \/ Cleanup

SpecRegistry == Init /\ [][NextRegistry]_vars

(* ---------------- properties -------------------------------------------- *)
(* positions of the live records *)
Live == 1..Len(socket_list)

(* the record holds a bound local address *)
IsBound(sock) == sock.local_addr.sin_port # 0

(* C1: for two distinct live records A and B, A bound to (ipA, p): a bind   *)
(* of B to (ipB, p), where ipA or ipB is the wildcard, fails with           *)
(* MYSOCKET_EADDRINUSE.  B is unconnected and the address is a full         *)
(* AF_INET address, so that no other check of mysocket_bind answers first.  *)
C1_WildcardBindRefused ==
    \A a \in Live, b \in Live, addr \in Addrs :
        ( /\ a # b
          /\ IsBound(socket_list[a])
          /\ socket_list[b].state = SS_UNCONNECTED
          /\ addr.sin_family = AF_INET
          /\ addr.sin_port = socket_list[a].local_addr.sin_port
          /\ \/ socket_list[a].local_addr.sin_addr = INADDR_ANY
             \/ addr.sin_addr = INADDR_ANY )
        => LET R == mysocket_bind(State, socket_list[b].fd, addr, SizeofAddrIn)
           IN R.ret = -1 /\ R.st.last_error = MYSOCKET_EADDRINUSE

(* C2 as stated: a bind of B to the specific address that another live     *)
(* record A holds returns -1 with MYSOCKET_EADDRINUSE, whatever B's state.  *)
C2_DuplicateBindAnyState ==
    \A a \in Live, b \in Live :
        ( /\ a # b
          /\ IsBound(socket_list[a])
          /\ socket_list[a].local_addr.sin_addr # INADDR_ANY )
        => LET R == mysocket_bind(State, socket_list[b].fd,
                                  socket_list[a].local_addr, SizeofAddrIn)
           IN R.ret = -1 /\ R.st.last_error = MYSOCKET_EADDRINUSE

(* C2 amended: a bind of B, of any address family and with the full         *)
(* address length, to the specific IP and non-zero port that another live   *)
(* record A holds returns -1; the error is MYSOCKET_EADDRINUSE when B is    *)
(* unconnected and MYSOCKET_EINVAL in every other state of B; the registry  *)
(* is left as it was.                                                       *)
C2_DuplicateBindRefused ==
    \A a \in Live, b \in Live, addr \in Addrs :
        ( /\ a # b
          /\ IsBound(socket_list[a])
          /\ addr.sin_addr # INADDR_ANY
          /\ addr.sin_port = socket_list[a].local_addr.sin_port
          /\ addr.sin_addr = socket_list[a].local_addr.sin_addr )
        => LET R == mysocket_bind(State, socket_list[b].fd, addr, SizeofAddrIn)
           IN /\ R.ret = -1
              /\ R.st.socket_list = socket_list
              /\ R.st.last_error = IF socket_list[b].state = SS_UNCONNECTED
                                   THEN MYSOCKET_EADDRINUSE ELSE MYSOCKET_EINVAL

(* C2 witness: a bind has reported MYSOCKET_EADDRINUSE while an unconnected *)
(* record stands next to a record bound to a specific address               *)
C2_Witness ==
    /\ last_error = MYSOCKET_EADDRINUSE
    /\ \E a \in Live, b \in Live :
          /\ a # b
          /\ IsBound(socket_list[a])
          /\ socket_list[a].local_addr.sin_addr # INADDR_ANY
          /\ socket_list[b].state = SS_UNCONNECTED
          /\ ~IsBound(socket_list[b])

(* a stream record that speaks TCP *)
IsTcp(sock) == sock.type = SOCK_STREAM /\ sock.protocol = IPPROTO_TCP

(* some live record listens on an address that matches addr *)
ListenerFor(addr) ==
    \E l \in Live :
        /\ socket_list[l].state = SS_LISTENING
        /\ socket_list[l].local_addr.sin_port = addr.sin_port
        /\ \/ socket_list[l].local_addr.sin_addr = INADDR_ANY
           \/ socket_list[l].local_addr.sin_addr = addr.sin_addr

(* the caller of connect holds a local port, or one of the ports auto-bind  *)
(* tries is free                                                            *)
CanGetLocalPort(i) ==
    \/ IsBound(socket_list[i])
    \/ \E k \in 0..(AutoBindTries - 1) :
          \A j \in Live :
              j = i \/ socket_list[j].local_addr.sin_port # mysocket_htons(next_port + k)

(* C3 as stated: connect of an unconnected TCP record to an address no      *)
(* listening record matches returns -1 with MYSOCKET_ECONNREFUSED and       *)
(* leaves the caller unconnected with sub-state CLOSED.                     *)
C3_RefusedWithoutListener ==
    \A i \in Live, addr \in Addrs :
        ( /\ IsTcp(socket_list[i])
          /\ socket_list[i].state = SS_UNCONNECTED
          /\ addr.sin_family = AF_INET
          /\ ~ListenerFor(addr) )
        => LET R == mysocket_connect(State, socket_list[i].fd, addr, SizeofAddrIn)
               after == R.st.socket_list[i]
           IN /\ R.ret = -1
              /\ R.st.last_error = MYSOCKET_ECONNREFUSED
              /\ after.state = SS_UNCONNECTED
              /\ after.tcp_state = TCP_CLOSED

(* C3 amended: the same call returns -1 and leaves the caller unconnected   *)
(* with sub-state CLOSED; the error is MYSOCKET_ECONNREFUSED when the       *)
(* caller holds a local port or auto-bind finds a free one, and             *)
(* MYSOCKET_ERROR when auto-bind runs out of attempts.                      *)
C3_RefusedOrBindFailure ==
    \A i \in Live, addr \in Addrs :
        ( /\ IsTcp(socket_list[i])
          /\ socket_list[i].state = SS_UNCONNECTED
          /\ addr.sin_family = AF_INET
          /\ ~ListenerFor(addr) )
        => LET R == mysocket_connect(State, socket_list[i].fd, addr, SizeofAddrIn)
               after == R.st.socket_list[i]
           IN /\ R.ret = -1
              /\ R.st.last_error = IF CanGetLocalPort(i)
                                   THEN MYSOCKET_ECONNREFUSED ELSE MYSOCKET_ERROR
              /\ after.state = SS_UNCONNECTED
              /\ after.tcp_state = TCP_CLOSED

(* C3 witness: a connect was refused; the caller kept the target as its     *)
(* peer address, is unconnected and CLOSED, and nothing listens there       *)
C3_Witness ==
    /\ last_error = MYSOCKET_ECONNREFUSED
    /\ \E i \in Live :
          /\ IsTcp(socket_list[i])
          /\ socket_list[i].peer_addr.sin_port # 0
          /\ socket_list[i].state = SS_UNCONNECTED
          /\ socket_list[i].tcp_state = TCP_CLOSED
          /\ ~ListenerFor(socket_list[i].peer_addr)

(* C4 as stated: connect of an unconnected TCP record to a target with     *)
(* non-zero IP and port succeeds whenever a live record listens on a        *)
(* matching address; the caller then has the target as peer address, is     *)
(* connected and ESTABLISHED.                                               *)
C4_ConnectsWheneverListener ==
    \A i \in Live, addr \in Addrs :
        ( /\ IsTcp(socket_list[i])
          /\ socket_list[i].state = SS_UNCONNECTED
          /\ addr.sin_family = AF_INET
          /\ addr.sin_addr # 0 /\ addr.sin_port # 0
          /\ ListenerFor(addr) )
        => LET R == mysocket_connect(State, socket_list[i].fd, addr, SizeofAddrIn)
               after == R.st.socket_list[i]
           IN /\ R.ret = MYSOCKET_OK
              /\ after.peer_addr = addr
              /\ after.state = SS_CONNECTED
              /\ after.tcp_state = TCP_ESTABLISHED

(* C4 amended: the same call succeeds as stated when the caller holds a     *)
(* local port or auto-bind finds a free one; when auto-bind runs out of     *)
(* attempts it returns -1 with MYSOCKET_ERROR and the caller stays          *)
(* unconnected, although a listener matches.  In both cases the caller is   *)
(* never left in the connecting state or in SYN_SENT.                       *)
C4_ConnectsIfLocalPort ==
    \A i \in Live, addr \in Addrs :
        ( /\ IsTcp(socket_list[i])
          /\ socket_list[i].state = SS_UNCONNECTED
          /\ addr.sin_family = AF_INET
          /\ addr.sin_addr # 0 /\ addr.sin_port # 0
          /\ ListenerFor(addr) )
        => LET R == mysocket_connect(State, socket_list[i].fd, addr, SizeofAddrIn)
               after == R.st.socket_list[i]
           IN IF CanGetLocalPort(i)
              THEN /\ R.ret = MYSOCKET_OK
                   /\ R.st.last_error = last_error
                   /\ after.peer_addr = addr
                   /\ IsBound(after)
                   /\ after.state = SS_CONNECTED
                   /\ after.tcp_state = TCP_ESTABLISHED
              ELSE /\ R.ret = -1
                   /\ R.st.last_error = MYSOCKET_ERROR
                   /\ after.state = SS_UNCONNECTED
                   /\ after.tcp_state = TCP_CLOSED

(* C4 witness: a record is connected and ESTABLISHED towards an address a   *)
(* live record listens on                                                   *)
C4_Witness ==
    \E i \in Live :
        /\ IsTcp(socket_list[i])
        /\ socket_list[i].state = SS_CONNECTED
        /\ socket_list[i].tcp_state = TCP_ESTABLISHED
        /\ socket_list[i].peer_addr.sin_addr # 0
        /\ ListenerFor(socket_list[i].peer_addr)

C6_ClosedForever ==
    \A h \in closed.ever :
        /\ socket_find_by_fd(socket_list, h) = 0
        /\ mysocket_close(State, h).ret = -1

(* C6 amended: within one registry lifetime, that is until the next         *)
(* mysocket_init, a handle whose close returned success is not resolvable   *)
(* in any later state, through every create, bind, listen, accept and       *)
(* close, and a further close of it fails with MYSOCKET_EINVAL.             *)
C6_ClosedWithinLifetime ==
    \A h \in closed.life :
        /\ socket_find_by_fd(socket_list, h) = 0
        /\ mysocket_close(State, h).ret = -1
        /\ mysocket_close(State, h).st.last_error = MYSOCKET_EINVAL
        /\ h < next_fd

(* C6 witness: a handle closed in this lifetime is unresolvable while a     *)
(* record issued after it is live                                           *)
C6_Witness ==
    \E h \in closed.life :
        /\ socket_find_by_fd(socket_list, h) = 0
        /\ \E j \in Live : socket_list[j].fd > h

(* C7 as stated: every handle a create call returns is at least 3 and      *)
(* strictly greater than every handle returned before it, also when         *)
(* several threads create concurrently.                                     *)
C7_ReturnedIncreasing ==
    \A k \in 1..Len(returned) :
        /\ returned[k].fd >= FirstFd
        /\ \A j \in 1..(k - 1) : returned[j].fd < returned[k].fd

(* C7 amended: within one registry lifetime every handle returned is at     *)
(* least 3, differs from every other handle returned, closed or not, and    *)
(* is strictly greater than every handle that had been returned when its    *)
(* call began; so the handles of one thread increase, while calls that      *)
(* overlap may return their handles in either order.                        *)
C7_ReturnedUnique ==
    \A k \in 1..Len(returned) :
        /\ returned[k].fd >= FirstFd
        /\ returned[k].fd < next_fd
        /\ \A j \in 1..Len(returned) : j # k => returned[j].fd # returned[k].fd
        /\ \A h \in returned[k].seen : h < returned[k].fd
        /\ \A j \in 1..(k - 1) :
              returned[j].by = returned[k].by => returned[j].fd < returned[k].fd

(* C7 witness: two overlapping calls have returned, the later return        *)
(* carrying the smaller handle                                              *)
C7_Witness ==
    \E j \in 1..Len(returned), k \in 1..Len(returned) :
        /\ j < k
        /\ returned[j].by # returned[k].by
        /\ returned[j].fd > returned[k].fd

(* the fourteen rows of the transition table: state, event, next state *)
ListedTransitions ==
    { <<TCP_CLOSED, TCP_EVENT_LISTEN, TCP_LISTEN>>,
      <<TCP_CLOSED, TCP_EVENT_CONNECT, TCP_SYN_SENT>>,
      <<TCP_LISTEN, TCP_EVENT_SYN_RECV, TCP_SYN_RECV>>,
      <<TCP_SYN_SENT, TCP_EVENT_SYN_ACK_RECV, TCP_ESTABLISHED>>,
      <<TCP_SYN_RECV, TCP_EVENT_ACK_RECV, TCP_ESTABLISHED>>,
      <<TCP_ESTABLISHED, TCP_EVENT_FIN_RECV, TCP_CLOSE_WAIT>>,
      <<TCP_ESTABLISHED, TCP_EVENT_CLOSE, TCP_FIN_WAIT1>>,
      <<TCP_FIN_WAIT1, TCP_EVENT_ACK_RECV, TCP_FIN_WAIT2>>,
      <<TCP_FIN_WAIT1, TCP_EVENT_FIN_RECV, TCP_CLOSING>>,
      <<TCP_FIN_WAIT2, TCP_EVENT_FIN_RECV, TCP_TIME_WAIT>>,
      <<TCP_CLOSE_WAIT, TCP_EVENT_CLOSE, TCP_LAST_ACK>>,
      <<TCP_LAST_ACK, TCP_EVENT_ACK_RECV, TCP_CLOSED>>,
      <<TCP_CLOSING, TCP_EVENT_ACK_RECV, TCP_TIME_WAIT>>,
      <<TCP_TIME_WAIT, TCP_EVENT_TIMEOUT, TCP_CLOSED>> }

(* C8: after tcp_state_transition has applied one of the eight events to    *)
(* a record, the sub-state is the one the table lists for the pair          *)
(* (previous sub-state, event), and the previous sub-state when the table   *)
(* lists none; TIME_WAIT is left only by TIMEOUT; nothing else in the       *)
(* record changes.                                                          *)
C8_TransitionTable ==
    probe.event \in TCP_EVENT_LISTEN..TCP_EVENT_TIMEOUT
    => /\ \A row \in ListedTransitions :
             (row[1] = probe.prev /\ row[2] = probe.event)
             => probe.sock.tcp_state = row[3]
       /\ (\A row \in ListedTransitions :
              ~(row[1] = probe.prev /\ row[2] = probe.event))
          => probe.sock.tcp_state = probe.prev
       /\ (probe.prev = TCP_TIME_WAIT /\ probe.sock.tcp_state # TCP_TIME_WAIT)
          => probe.event = TCP_EVENT_TIMEOUT
       /\ [probe.sock EXCEPT !.tcp_state = TCP_CLOSED]
             = socket_create(FirstFd, AF_INET, SOCK_STREAM, IPPROTO_TCP)

(* C8 witness: a listed transition and an unlisted pair have both been      *)
(* applied: the record sits in TIME_WAIT, reached from CLOSING by ACK_RECV, *)
(* or stays in TIME_WAIT under CLOSE                                        *)
C8_Witness ==
    /\ probe.sock.tcp_state = TCP_TIME_WAIT
    /\ \/ probe.prev = TCP_CLOSING /\ probe.event = TCP_EVENT_ACK_RECV
       \/ probe.prev = TCP_TIME_WAIT /\ probe.event = TCP_EVENT_CLOSE

(* C9: a send on a connected TCP record whose peer address no record       *)
(* owns, with room in the send buffer, reports success: it returns the      *)
(* number of bytes accepted, for every payload of at least one byte.        *)
C9_SendWithoutPeerSucceeds ==
    \A i \in Live, data \in Payloads :
        ( /\ IsTcp(socket_list[i])
          /\ socket_list[i].state = SS_CONNECTED
          /\ socket_find_by_address(socket_list, socket_list[i].peer_addr) = 0
          /\ Len(socket_list[i].send_buffer) < socket_list[i].send_buf_size )
        => LET R == mysocket_send(State, socket_list[i].fd, data)
           IN /\ R.ret # -1
              /\ R.ret = Min(Len(data), socket_list[i].send_buf_size
                                          - Len(socket_list[i].send_buffer))

(* C10: for two distinct datagram records A and B bound to different ports  *)
(* of one host address, B's receive buffer empty: a sendto of n bytes from  *)
(* A to B's address, 1 <= n <= B's capacity, returns n, and the recvfrom    *)
(* on B that follows, with room for n bytes or more, returns exactly those  *)
(* n bytes.                                                                 *)
C10_UdpRoundTrip ==
    \A a \in Live, b \in Live, data \in Payloads, max_len \in 1..MaxMsgLen :
        ( /\ a # b
          /\ socket_list[a].type = SOCK_DGRAM /\ socket_list[b].type = SOCK_DGRAM
          /\ IsBound(socket_list[a]) /\ IsBound(socket_list[b])
          /\ socket_list[a].local_addr.sin_port # socket_list[b].local_addr.sin_port
          /\ socket_list[a].local_addr.sin_addr = socket_list[b].local_addr.sin_addr
          /\ socket_list[b].recv_buffer = << >>
          /\ Len(data) <= socket_list[b].recv_buf_size
          /\ max_len >= Len(data) )
        => LET S1 == mysocket_sendto(State, socket_list[a].fd, data,
                                     socket_list[b].local_addr, SizeofAddrIn)
               S2 == mysocket_recvfrom(S1.st, socket_list[b].fd, max_len)
           IN /\ S1.ret = Len(data)
              /\ S2.ret = Len(data)
              /\ S2.out = data

(* C11: in every reachable state every live record has at most            *)
(* send_buf_size used bytes in its send buffer and at most recv_buf_size    *)
(* used bytes in its receive buffer, whatever sends, receives, packet       *)
(* deliveries, resizes and clears came before.                              *)
C11_UsedWithinCapacity ==
    \A i \in Live :
        /\ Len(socket_list[i].send_buffer) <= socket_list[i].send_buf_size
        /\ Len(socket_list[i].recv_buffer) <= socket_list[i].recv_buf_size

(* a receive buffer that was shrunk and is full to its new capacity, and a  *)
(* send buffer that still holds bytes                                       *)
C11_Witness ==
    \E i \in Live, j \in Live :
        /\ socket_list[i].recv_buf_size < BufSize
        /\ Len(socket_list[i].recv_buffer) = socket_list[i].recv_buf_size
        /\ Len(socket_list[j].send_buffer) > 0

(* the used bytes of the array, oldest first *)
BufferContents(area, used) == [k \in 1..used |-> area[k]]

(* C12: the array follows the reference queue.  In every state reached by   *)
(* writes and reads the used bytes are the queue's bytes in order; a write  *)
(* of data appends the min(len(data), total - used) leading bytes of data   *)
(* at the tail and returns that count (0 when full, never negative); a read *)
(* of max_len returns the min(max_len, used) oldest bytes in the order      *)
(* written, removes them, keeps the rest in order, and returns 0 on an      *)
(* empty buffer.                                                            *)
C12_ReferenceQueue ==
    /\ buf.used = Len(buf.queue)
    /\ BufferContents(buf.buffer, buf.used) = buf.queue
    /\ \A data \in Payloads \cup { << >> } :
          LET w == socket_buffer_write_mem(buf.buffer, buf.used, buf.total, data)
              n == Min(Len(data), buf.total - buf.used)
          IN /\ w.ret = n
             /\ w.used = buf.used + n
             /\ BufferContents(w.buffer, w.used) = buf.queue \o SubSeq(data, 1, n)
    /\ \A len \in 0..MaxMsgLen :
          LET r == socket_buffer_read_mem(buf.buffer, buf.used, len)
              n == Min(len, buf.used)
          IN /\ r.ret = n
             /\ r.data = SubSeq(buf.queue, 1, n)
             /\ r.used = buf.used - n
             /\ BufferContents(r.buffer, r.used) =
                   SubSeq(buf.queue, n + 1, Len(buf.queue))

(* a full buffer of several bytes, reached after a partial read and a       *)
(* write that was cut to the free space                                     *)
C12_Witness ==
    /\ buf.total >= 2
    /\ buf.used = buf.total
    /\ \E k \in 2..buf.used : buf.queue[k] # buf.queue[1]
    /\ \E k \in 1..buf.total : buf.buffer[k] # buf.queue[1]

(* C13: a listening record never holds more pending connections than its  *)
(* backlog (the queue's length is its count), and an enqueue attempted      *)
(* while count = backlog fails and leaves count and contents as they were.  *)
C13_BacklogBound ==
    \A i \in Live :
        socket_list[i].state = SS_LISTENING =>
            /\ socket_list[i].listen_count <= socket_list[i].listen_backlog
            /\ Len(socket_list[i].listen_queue) = socket_list[i].listen_count
            /\ socket_list[i].listen_count = socket_list[i].listen_backlog =>
                  \A j \in Live :
                      LET a == socket_listen_queue_add(socket_list[i],
                                                       socket_list[j].fd)
                      IN a.result = -1 /\ a.sock = socket_list[i]

(* a listener whose queue of two or more connections is full *)
C13_Witness ==
    \E i \in Live :
        /\ socket_list[i].state = SS_LISTENING
        /\ socket_list[i].listen_backlog >= 2
        /\ socket_list[i].listen_count = socket_list[i].listen_backlog

(* what listen asks of the record behind a handle *)
MayListen(L, i) ==
    /\ i # 0
    /\ L[i].type = SOCK_STREAM
    /\ L[i].local_addr.sin_port # 0
    /\ L[i].state = SS_UNCONNECTED

(* C14: listen(handle, backlog) succeeds only on a stream record with a     *)
(* non-zero local port in the unconnected state, and succeeds on every such *)
(* record; otherwise it fails with INVALID_ARGUMENT and leaves every record *)
(* unchanged.  After a success the record has an empty pending queue,       *)
(* count 0, state listening and, when its protocol is TCP, sub-state        *)
(* LISTEN; nothing else in the registry changes.                            *)
C14_ListenRequirements ==
    \A fd \in FdInputs, b \in ListenBacklogs :
        LET i == socket_find_by_fd(socket_list, fd)
            R == mysocket_listen(State, fd, b)
            after == R.st.socket_list
        IN IF MayListen(socket_list, i)
           THEN /\ R.ret = MYSOCKET_OK
                /\ after[i].listen_queue = << >>
                /\ after[i].listen_count = 0
                /\ after[i].state = SS_LISTENING
                /\ after[i].protocol = IPPROTO_TCP => after[i].tcp_state = TCP_LISTEN
                /\ after = [socket_list EXCEPT
                              ![i].listen_queue = after[i].listen_queue,
                              ![i].listen_backlog = after[i].listen_backlog,
                              ![i].listen_count = after[i].listen_count,
                              ![i].state = after[i].state,
                              ![i].tcp_state = after[i].tcp_state]
           ELSE /\ R.ret = -1
                /\ R.st.last_error = MYSOCKET_EINVAL
                /\ after = socket_list

(* a TCP listener made by a successful listen, beside a datagram record     *)
(* with a local port on which listen has just failed                        *)
C14_Witness ==
    /\ last_error = MYSOCKET_EINVAL
    /\ \E i \in Live, j \in Live :
          /\ socket_list[i].state = SS_LISTENING
          /\ socket_list[i].tcp_state = TCP_LISTEN
          /\ socket_list[i].listen_count = 0
          /\ socket_list[j].type = SOCK_DGRAM
          /\ socket_list[j].local_addr.sin_port # 0
          /\ socket_list[j].state = SS_UNCONNECTED

(* C15 as stated: after a successful listen the stored capacity is the      *)
(* backlog clamped to [1, 128], min(max(backlog, 1), 128), for every        *)
(* integer backlog.                                                         *)
C15_BacklogClamped ==
    \A fd \in FdInputs, b \in ListenBacklogs :
        LET i == socket_find_by_fd(socket_list, fd)
            R == mysocket_listen(State, fd, b)
        IN R.ret = MYSOCKET_OK =>
              R.st.socket_list[i].listen_backlog =
                  Min(IF b > 1 THEN b ELSE 1, DEFAULT_LISTEN_BACKLOG)

(* C15 amended: after a successful listen the stored capacity is backlog    *)
(* when 1 <= backlog <= 128 and 128 otherwise, zero and negative backlogs   *)
(* included.                                                                *)
C15_BacklogOrDefault ==
    \A fd \in FdInputs, b \in ListenBacklogs :
        LET i == socket_find_by_fd(socket_list, fd)
            R == mysocket_listen(State, fd, b)
        IN R.ret = MYSOCKET_OK =>
              R.st.socket_list[i].listen_backlog =
                  IF 1 <= b /\ b <= DEFAULT_LISTEN_BACKLOG
                  THEN b ELSE DEFAULT_LISTEN_BACKLOG

(* two listeners, one with the capacity it asked for and one with 128 *)
C15_Witness ==
    \E i \in Live, j \in Live :
        /\ socket_list[i].state = SS_LISTENING
        /\ socket_list[j].state = SS_LISTENING
        /\ socket_list[i].listen_backlog = 1
        /\ socket_list[j].listen_backlog = DEFAULT_LISTEN_BACKLOG

(* C16: in every reachable state a record in listening state carries no    *)
(* peer address: its peer IP and peer port are both zero.                   *)
C16_ListenerHasNoPeer ==
    \A i \in Live :
        socket_list[i].state = SS_LISTENING =>
            /\ socket_list[i].peer_addr.sin_addr = 0
            /\ socket_list[i].peer_addr.sin_port = 0

(* The registry as it stands after each write of a call, in order: by is   *)
(* "call" where the call assigns tcp_state itself and "delivery" where a    *)
(* packet is handed to tcp_process_packet (a delivery applies at most two   *)
(* events to one record: the packet's and that of the ACK it answers with). *)
Snap(L, by) == [list |-> L, by |-> by]

(* mysocket_listen: one assignment *)
ListenTrace(S, sockfd, backlog) ==
    <<Snap(S.socket_list, "call"),
      Snap(mysocket_listen(S, sockfd, backlog).st.socket_list, "call")>>

(* mysocket_accept: the synthesized record is registered by                 *)
(* socket_add_to_manager before its sub-state is assigned                   *)
AcceptTrace(S, sockfd, rand_port) ==
    LET L == S.socket_list
        i == socket_find_by_fd(L, sockfd)
        final == mysocket_accept(S, sockfd, rand_port).st.socket_list
    IN IF i # 0 /\ L[i].state = SS_LISTENING /\ L[i].listen_count = 0
       THEN <<Snap(L, "call"),
              Snap(socket_add_to_manager(L,
                      socket_create(S.next_fd, L[i].family, L[i].type,
                                    L[i].protocol)), "call"),
              Snap(final, "call")>>
       ELSE <<Snap(L, "call"), Snap(final, "call")>>

(* mysocket_connect: SYN delivery, tcp_state = TCP_SYN_SENT, then the       *)
(* assignment of the success or the failure path                            *)
ConnectTrace(S, sockfd, addr, addrlen) ==
    LET L == S.socket_list
        i == socket_find_by_fd(L, sockfd)
        final == mysocket_connect(S, sockfd, addr, addrlen).st.socket_list
        L1 == [L EXCEPT ![i].peer_addr = addr]
        ab == IF L1[i].local_addr.sin_port = 0
              THEN socket_auto_bind(L1, i, S.next_port)
              ELSE [list |-> L1, next_port |-> S.next_port, result |-> 0]
        L2 == [ab.list EXCEPT ![i].state = SS_CONNECTING]
        syn == tcp_send_syn(L2, i)
        L3 == [syn.list EXCEPT ![i].tcp_state = TCP_SYN_SENT]
    IN IF \/ i = 0
          \/ addrlen < SizeofAddrIn
          \/ L[i].state # SS_UNCONNECTED
          \/ ~socket_addr_copy_ok(addr, addrlen)
       THEN <<Snap(L, "call"), Snap(final, "call")>>
       ELSE IF ab.result < 0 \/ L2[i].protocol # IPPROTO_TCP
       THEN <<Snap(L, "call"), Snap(final, "call")>>
       ELSE IF syn.result < 0
       THEN <<Snap(L, "call"), Snap(syn.list, "delivery"), Snap(final, "call")>>
       ELSE <<Snap(L, "call"), Snap(syn.list, "delivery"), Snap(L3, "call"),
              Snap(final, "call")>>

(* mysocket_close: FIN delivery, then tcp_state = TCP_FIN_WAIT1, then the   *)
(* record leaves the registry                                               *)
CloseTrace(S, sockfd) ==
    LET L == S.socket_list
        i == socket_find_by_fd(L, sockfd)
        fin == tcp_send_fin(L, i)
    IN IF i # 0 /\ L[i].type = SOCK_STREAM /\ L[i].state = SS_CONNECTED
       THEN <<Snap(L, "call"), Snap(fin.list, "delivery"),
              Snap([fin.list EXCEPT ![i].tcp_state = TCP_FIN_WAIT1], "call"),
              Snap(mysocket_close(S, sockfd).st.socket_list, "call")>>
       ELSE <<Snap(L, "call"),
              Snap(mysocket_close(S, sockfd).st.socket_list, "call")>>

(* s and t are the two ends of a row of the table *)
Listed(s, t) == \E row \in ListedTransitions : row[1] = s /\ row[3] = t

(* every record present before and after each write of the trace keeps its *)
(* sub-state or moves along a row of the table (two rows in a delivery)     *)
TcpWritesListed(trace) ==
    \A k \in 1..(Len(trace) - 1) :
        \A i \in 1..Len(trace[k].list) :
            LET before == trace[k].list[i]
                j == socket_find_by_fd(trace[k + 1].list, before.fd)
                s == before.tcp_state
                t == trace[k + 1].list[j].tcp_state
            IN j # 0 =>
                 \/ s = t
                 \/ Listed(s, t)
                 \/ /\ trace[k + 1].by = "delivery"
                    /\ \E u \in TcpStates : Listed(s, u) /\ Listed(u, t)

(* C17: every change of a live record's TCP sub-state that listen, accept,  *)
(* connect (its failure paths included) or close makes, by an assignment of *)
(* its own or by the packet it delivers to another record, follows a row of *)
(* the section 4.5 table.                                                   *)
C17_SubStateFollowsTable ==
    /\ \A fd \in FdInputs, b \in Backlogs :
          TcpWritesListed(ListenTrace(State, fd, b))
    /\ \A fd \in FdInputs, p \in RandPorts :
          TcpWritesListed(AcceptTrace(State, fd, p))
    /\ \A fd \in FdInputs, a \in ConnectArgs :
          TcpWritesListed(ConnectTrace(State, fd, a[1], a[2]))
    /\ \A fd \in FdInputs :
          TcpWritesListed(CloseTrace(State, fd))

(* the simulated inbound source hands this call of recv no bytes: the TCP   *)
(* source yields bytes on every TcpReceivePeriod-th pull only, a datagram   *)
(* record has no source but its own receive buffer                          *)
NothingPulled(sock, cnt) ==
    sock.protocol = IPPROTO_TCP => (cnt + 1) % TcpReceivePeriod # 0

C19_SendAcceptsWhatFits ==
    \A fd \in FdInputs, data \in SentPayloads :
        LET L == State.socket_list
            i == socket_find_by_fd(L, fd)
            n == Len(data)
            f == L[i].send_buf_size - Len(L[i].send_buffer)
            R == mysocket_send(State, fd, data)
        IN (i # 0 /\ n >= 1) =>
             /\ (L[i].state = SS_CONNECTED /\ f > 0) => R.ret = Min(n, f)
             /\ (L[i].state = SS_CONNECTED /\ f = 0)
                => R.ret = -1 /\ R.st.last_error = MYSOCKET_EAGAIN
             /\ L[i].state # SS_CONNECTED
                => /\ R.ret = -1
                   /\ R.st.last_error = MYSOCKET_EINVAL
                   /\ R.st.socket_list = L

(* destinations and sizes a caller passes to sendto: the bound address, an *)
(* address no record owns, one of the wrong family and one too short        *)
SendtoArgs ==
    { <<StreamAddr, SizeofAddrIn>>,
      <<Addr(AF_INET, PortB, IpOther), SizeofAddrIn>>,
      <<Addr(AF_UNIX, PortA, IpLoop), SizeofAddrIn>>,
      <<StreamAddr, SizeofAddrIn - 8>> }

(* C20: whatever sendto on a datagram record returns, the record's peer     *)
(* address and its connection state are the same after the call as before.  *)
C20_SendtoKeepsPeer ==
    \A fd \in FdInputs, data \in SentPayloads \cup { << >> }, a \in SendtoArgs :
        LET L == State.socket_list
            i == socket_find_by_fd(L, fd)
            R == mysocket_sendto(State, fd, data, a[1], a[2])
        IN (i # 0 /\ L[i].type = SOCK_DGRAM) =>
             /\ Len(R.st.socket_list) = Len(L)
             /\ R.st.socket_list[i].peer_addr = L[i].peer_addr
             /\ R.st.socket_list[i].state = L[i].state

(* sendto has delivered: a datagram record holds received bytes while no    *)
(* record of the registry is connected, so no send put them there           *)
C20_Witness ==
    /\ \E i \in 1..Len(socket_list) :
          /\ socket_list[i].type = SOCK_DGRAM
          /\ socket_list[i].recv_buffer # << >>
    /\ \A i \in 1..Len(socket_list) :
          /\ socket_list[i].type = SOCK_DGRAM
          /\ socket_list[i].state = SS_UNCONNECTED
          /\ socket_list[i].peer_addr.sin_port = 0

(* C21: connect of an unconnected datagram record to a full AF_INET        *)
(* address, with a local port held or free for auto-bind, returns 0 whether *)
(* or not a record is bound at the target, stores the target as peer        *)
(* address, makes the record connected and leaves its TCP sub-state alone.  *)
C21_DgramConnectSucceeds ==
    \A i \in Live, addr \in Addrs :
        ( /\ socket_list[i].type = SOCK_DGRAM
          /\ socket_list[i].state = SS_UNCONNECTED
          /\ addr.sin_family = AF_INET
          /\ CanGetLocalPort(i) )
        => LET R == mysocket_connect(State, socket_list[i].fd, addr, SizeofAddrIn)
               after == R.st.socket_list[i]
           IN /\ R.ret = MYSOCKET_OK
              /\ after.peer_addr = addr
              /\ after.state = SS_CONNECTED
              /\ after.tcp_state = socket_list[i].tcp_state

(* the call failed with MYSOCKET_EINVAL and changed nothing else *)
RefusedAsInvalid(R) ==
    /\ R.ret = -1
    /\ R.st = [State EXCEPT !.last_error = MYSOCKET_EINVAL]

(* C22: bind, listen, accept, connect, close, send, recv, sendto and        *)
(* recvfrom, called with a handle no live record carries (never issued, or  *)
(* closed), return -1, record MYSOCKET_EINVAL and leave the registry and    *)
(* every record as they were, whatever the other arguments are.             *)
C22_UnknownHandleRefused ==
    \A fd \in FdInputs :
        (\A i \in Live : socket_list[i].fd # fd) =>
            /\ \A a \in BindArgs : RefusedAsInvalid(mysocket_bind(State, fd, a[1], a[2]))
            /\ \A b \in ListenBacklogs : RefusedAsInvalid(mysocket_listen(State, fd, b))
            /\ \A p \in RandPorts : RefusedAsInvalid(mysocket_accept(State, fd, p))
            /\ \A a \in ConnectArgs :
                  RefusedAsInvalid(mysocket_connect(State, fd, a[1], a[2]))
            /\ RefusedAsInvalid(mysocket_close(State, fd))
            /\ \A data \in SentPayloads \cup { << >> } :
                  /\ RefusedAsInvalid(mysocket_send(State, fd, data))
                  /\ \A a \in SendtoArgs :
                        RefusedAsInvalid(mysocket_sendto(State, fd, data, a[1], a[2]))
            /\ \A len \in 0..MaxMsgLen :
                  /\ RefusedAsInvalid(mysocket_recv(State, fd, len))
                  /\ RefusedAsInvalid(mysocket_recvfrom(State, fd, len))

(* a call has been refused for its handle: the handle was issued and is     *)
(* closed, other records are live, and the error is MYSOCKET_EINVAL         *)
C22_Witness ==
    /\ last_error = MYSOCKET_EINVAL
    /\ Len(socket_list) > 0
    /\ \E fd \in FirstFd..(next_fd - 1) : \A i \in Live : socket_list[i].fd # fd

(* domains, types and protocols a caller passes to create *)
Domains == { 0, AF_UNIX, AF_INET, 10, 999 }
Types == { 0, SOCK_STREAM, SOCK_DGRAM, SOCK_RAW, 4 }
Protocols == { 0, IPPROTO_TCP, IPPROTO_UDP }

(* C23: create returns -1 with MYSOCKET_EINVAL and adds no record when the  *)
(* domain is neither AF_UNIX nor AF_INET or the type is none of stream,     *)
(* datagram, raw; otherwise it adds exactly one record, unconnected, with   *)
(* sub-state CLOSED, local and peer port 0, empty buffers, and with         *)
(* protocol TCP for stream and UDP for datagram when protocol 0 is passed.  *)
C23_CreateValidates ==
    \A domain \in Domains, type \in Types, protocol \in Protocols :
        LET R == mysocket_socket(State, domain, type, protocol)
            L1 == R.st.socket_list
            new == L1[1]
        IN IF domain \notin { AF_UNIX, AF_INET }
              \/ type \notin { SOCK_STREAM, SOCK_DGRAM, SOCK_RAW }
           THEN /\ R.ret = -1
                /\ R.st = [State EXCEPT !.last_error = MYSOCKET_EINVAL]
           ELSE /\ Len(L1) = Len(socket_list) + 1
                /\ R.st.total_sockets = total_sockets + 1
                /\ Tail(L1) = socket_list
                /\ R.ret = new.fd
                /\ new.family = domain /\ new.type = type
                /\ new.state = SS_UNCONNECTED
                /\ new.tcp_state = TCP_CLOSED
                /\ new.local_addr.sin_port = 0
                /\ new.peer_addr.sin_port = 0
                /\ new.send_buffer = << >> /\ new.recv_buffer = << >>
                /\ new.protocol =
                      IF protocol # 0 THEN protocol
                      ELSE IF type = SOCK_STREAM THEN IPPROTO_TCP
                      ELSE IF type = SOCK_DGRAM THEN IPPROTO_UDP
                      ELSE 0

(* create has added a datagram record with the inferred protocol UDP in     *)
(* front of an older record, and the count is 2                             *)
C23_Witness ==
    /\ Len(socket_list) = 2
    /\ total_sockets = 2
    /\ socket_list[1] = socket_create(socket_list[1].fd, AF_INET, SOCK_DGRAM,
                                      IPPROTO_UDP)
    /\ socket_list[2].state # SS_UNCONNECTED

C25_ByteOrderRoundTrip ==
    /\ mysocket_ntohs(mysocket_htons(word.s)) = word.s
    /\ mysocket_htons(mysocket_ntohs(word.s)) = word.s
    /\ mysocket_ntohl_wide(mysocket_htonl_wide(word.l)) = word.l
    /\ mysocket_htonl_wide(mysocket_ntohl_wide(word.l)) = word.l
    /\ word.s \in { word.s0, mysocket_htons(word.s0) }
    /\ word.l \in { word.l0, mysocket_htonl_wide(word.l0) }
    /\ (word.l[1] < 128 /\ word.l[4] < 128) =>
          /\ mysocket_htonl(LongOf(word.l)) = LongOf(mysocket_htonl_wide(word.l))
          /\ mysocket_ntohl(LongOf(word.l)) = LongOf(mysocket_ntohl_wide(word.l))
          /\ mysocket_ntohl(mysocket_htonl(LongOf(word.l))) = LongOf(word.l)

(* port 9001 has been swapped to its network form, which differs from it *)
C25_Witness ==
    /\ word.s0 = 9001
    /\ word.s = 10531
    /\ word.s = mysocket_htons(word.s0)

(* C26: whenever a thread walks the record list to look for an address    *)
(* conflict, no other thread is inside the locked section that unlinks a    *)
(* record.                                                                  *)
C26_ScansUnderLock ==
    [][ \A t \in Threads :
          (thread[t].pc = "bind_scan" /\ thread'[t].pc # "bind_scan"
             /\ thread'[t].bad = "none")
          => lock \in { 0, t } ]_vars

(* C27: no thread reads or writes a record after socket_destroy has freed   *)
(* it, and no record is freed twice.                                        *)
C27_NoUseAfterDestroy ==
    \A t \in Threads : thread[t].bad = "none"

(* thread t has made a bind call that returned success *)
BoundBy(t) ==
    thread[t].pc = "idle" /\ thread[t].op = "bind" /\ thread[t].ret = MYSOCKET_OK
    /\ thread[t].bad = "none"

(* C28: a bind to a specific address whose conflict check is made when      *)
(* another record already holds that address fails with MYSOCKET_EADDRINUSE *)
(* (the second of two binds run one after the other fails); the state of    *)
(* C28_Witness, where two overlapping binds both succeeded, is reachable.   *)
C28_LaterCheckFails ==
    \A t \in Threads :
        /\ (thread[t].pc = "bind_commit" \/ BoundBy(t)) => thread[t].others = {}
        /\ ( /\ thread[t].pc = "idle" /\ thread[t].op = "bind"
             /\ thread[t].bad = "none"
             /\ thread[t].others # {} )
           => /\ thread[t].ret = -1
              /\ thread[t].failed = MYSOCKET_EADDRINUSE
              /\ last_error[t] = MYSOCKET_EADDRINUSE

(* the race: two threads have returned success from bind on two distinct    *)
(* records, and both records hold the same specific local address           *)
C28_Witness ==
    \E t, u \in Threads :
        /\ t # u
        /\ BoundBy(t) /\ BoundBy(u)
        /\ thread[t].sock # thread[u].sock
        /\ \E i, j \in Live :
              /\ socket_list[i].fd = thread[t].sock
              /\ socket_list[j].fd = thread[u].sock
              /\ socket_list[i].local_addr = StreamAddr
              /\ socket_list[j].local_addr = StreamAddr

(* C29: in every interleaving the last_error slot of a thread holds the     *)
(* code of the most recent failing call of that thread (0 before its first  *)
(* failure), whatever the other threads' calls recorded.                    *)
C29_ErrorPerThread ==
    \A t \in Threads : last_error[t] = thread[t].failed

(* two threads have failed with different codes and each reads its own *)
C29_Witness ==
    \E t, u \in Threads :
        /\ last_error[t] = MYSOCKET_EINVAL
        /\ last_error[u] = MYSOCKET_EADDRINUSE
        /\ t # u
        /\ thread[t].failed = MYSOCKET_EINVAL
        /\ thread[u].failed = MYSOCKET_EADDRINUSE

(* C30: when connect auto-binds an unbound record, the port it stores lies *)
(* in 32768..65535, is the first port from the cursor on that no other      *)
(* record's bound address conflicts with, and the cursor afterwards is the  *)
(* port after it, with 65535 followed by 32768.                             *)
C30_AutoBindInEphemeralRange ==
    \A i \in Live :
        ( /\ socket_list[i].state = SS_UNCONNECTED
          /\ socket_list[i].local_addr.sin_port = 0 )
        => LET R == mysocket_connect(State, socket_list[i].fd, PortTarget,
                                     SizeofAddrIn)
               given == mysocket_ntohs(R.st.socket_list[i].local_addr.sin_port)
               taken(q) == \E j \in Live :
                              j # i /\ socket_list[j].local_addr.sin_port
                                         = mysocket_htons(q)
           IN R.ret = MYSOCKET_OK =>
                /\ given \in EphemeralLow..EphemeralHigh
                /\ next_port \in EphemeralLow..EphemeralHigh
                /\ given >= next_port
                /\ ~taken(given)
                /\ \A q \in next_port..(given - 1) : taken(q)
                /\ R.st.next_port =
                      IF given = EphemeralHigh THEN EphemeralLow ELSE given + 1

(* the records enqueued on the listener of handle fd, oldest first *)
RECURSIVE EnqueuedOn(_, _)
EnqueuedOn(h, fd) ==
    IF h = << >> THEN << >>
    ELSE IF Head(h)[1] = fd THEN <<Head(h)[2]>> \o EnqueuedOn(Tail(h), fd)
    ELSE EnqueuedOn(Tail(h), fd)

C32_ListenerStaysInListen ==
    \A i \in Live :
        ( /\ socket_list[i].protocol = IPPROTO_TCP
          /\ socket_list[i].state = SS_LISTENING )
        => socket_list[i].tcp_state = TCP_LISTEN

(* C33: when send on a connected record returns -1, the record's send      *)
(* buffer holds the same bytes after the call as before it.                 *)
C33_FailedSendBuffersNothing ==
    \A i \in Live, data \in Payloads :
        socket_list[i].state = SS_CONNECTED =>
            LET R == mysocket_send(State, socket_list[i].fd, data)
            IN R.ret = -1 =>
                  R.st.socket_list[i].send_buffer = socket_list[i].send_buffer

(* C34: recv on a connected datagram record hands out the bytes of its     *)
(* receive buffer in the order they were delivered, without loss or         *)
(* duplication: a recv of len returns the min(len, used) oldest bytes and   *)
(* leaves the others, in order, for the recv calls after it.                *)
C34_DgramRecvInOrder ==
    \A i \in Live, len \in 1..MaxMsgLen :
        ( /\ socket_list[i].protocol = IPPROTO_UDP
          /\ socket_list[i].state = SS_CONNECTED )
        => LET before == socket_list[i].recv_buffer
               n == Min(len, Len(before))
               R == mysocket_recv(State, socket_list[i].fd, len)
           IN /\ R.out = SubSeq(before, 1, n)
              /\ R.st.socket_list[i].recv_buffer =
                    SubSeq(before, n + 1, Len(before))

(* C35: the receive buffer of a record in listening state is empty in     *)
(* every reachable state.                                                   *)
C35_ListenerReceivesNothing ==
    \A i \in Live :
        socket_list[i].state = SS_LISTENING => socket_list[i].recv_buffer = << >>

(* C36: a connect that returns -1 leaves the record's local address and   *)
(* peer address as they were before the call.                               *)
C36_FailedConnectKeepsAddresses ==
    \A i \in Live, addr \in Addrs, addrlen \in {SizeofAddrIn - 1, SizeofAddrIn} :
        LET R == mysocket_connect(State, socket_list[i].fd, addr, addrlen)
        IN R.ret = -1 =>
              /\ R.st.socket_list[i].local_addr = socket_list[i].local_addr
              /\ R.st.socket_list[i].peer_addr = socket_list[i].peer_addr

(* C37: recv on a connected TCP record returns only bytes that a sender   *)
(* passed to send: every byte it hands out is a payload byte, the only      *)
(* bytes the send and sendto calls are given.                               *)
C37_RecvReturnsSentBytes ==
    \A i \in Live, len \in 1..MaxMsgLen :
        ( /\ socket_list[i].protocol = IPPROTO_TCP
          /\ socket_list[i].state = SS_CONNECTED )
        => LET R == mysocket_recv(State, socket_list[i].fd, len)
           IN \A k \in 1..Len(R.out) : R.out[k] \in Bytes

(* the registry with every listener's backlog set to b *)
WithBacklog(S, b) ==
    [S EXCEPT !.socket_list =
        [k \in 1..Len(S.socket_list) |->
            IF S.socket_list[k].state = SS_LISTENING
            THEN [S.socket_list[k] EXCEPT !.listen_backlog = b]
            ELSE S.socket_list[k]]]

(* C38: under the public calls every listening record has pending count 0  *)
(* and an empty queue; a connect leaves it so and returns the same result   *)
(* whatever the listeners' backlogs are; an accept on a listening record    *)
(* returns a handle that was not in the registry and adds exactly one       *)
(* record, the one of that handle, keeping all others.                      *)
C38_NothingIsEverPending ==
    /\ \A i \in Live :
          socket_list[i].state = SS_LISTENING =>
              /\ socket_list[i].listen_count = 0
              /\ socket_list[i].listen_queue = << >>
    /\ \A i \in Live, addr \in ListenAddrs :
          LET R == mysocket_connect(State, socket_list[i].fd, addr, SizeofAddrIn)
          IN /\ \A k \in 1..Len(R.st.socket_list) :
                   R.st.socket_list[k].listen_count = 0
             /\ \A b \in {1, MaxBacklog + 1} :
                   mysocket_connect(WithBacklog(State, b), socket_list[i].fd,
                                    addr, SizeofAddrIn).ret = R.ret
    /\ \A i \in Live, p \in RandPorts :
          socket_list[i].state = SS_LISTENING =>
              LET R == mysocket_accept(State, socket_list[i].fd, p)
              IN /\ R.ret = next_fd
                 /\ socket_find_by_fd(socket_list, R.ret) = 0
                 /\ Len(R.st.socket_list) = Len(socket_list) + 1
                 /\ R.st.total_sockets = total_sockets + 1
                 /\ socket_find_by_fd(R.st.socket_list, R.ret) # 0
                 /\ \A k \in Live :
                       socket_find_by_fd(R.st.socket_list, socket_list[k].fd) # 0

(* a client is connected to the address of a listener of backlog 1, whose  *)
(* queue is empty                                                           *)
C38_Witness ==
    \E i \in Live, j \in Live :
        /\ socket_list[i].state = SS_LISTENING
        /\ socket_list[i].listen_backlog = 1
        /\ socket_list[i].listen_count = 0
        /\ socket_list[j].state = SS_CONNECTED
        /\ socket_list[j].protocol = IPPROTO_TCP
        /\ socket_list[j].peer_addr.sin_port = socket_list[i].local_addr.sin_port
        /\ socket_list[j].peer_addr.sin_addr = socket_list[i].local_addr.sin_addr

(* sub-states a live record is left in between calls *)
RestingStates ==
    { TCP_CLOSED, TCP_LISTEN, TCP_SYN_RECV, TCP_ESTABLISHED, TCP_CLOSE_WAIT }

(* a registry of one record in TIME_WAIT that owns port PortA *)
TimeWaitList ==
    << [socket_create(FirstFd, AF_INET, SOCK_STREAM, IPPROTO_TCP) EXCEPT
           !.tcp_state = TCP_TIME_WAIT,
           !.local_addr = Addr(AF_INET, PortA, IpLoop)] >>

(* every combination of the four flags the delivery path tests *)
PacketFlags ==
    { f + s + p + a : f \in {0, TCP_FLAG_FIN}, s \in {0, TCP_FLAG_SYN},
                      p \in {0, TCP_FLAG_PSH}, a \in {0, TCP_FLAG_ACK} }

C40_CountMatchesList ==
    /\ total_sockets = Len(socket_list)
    /\ \A i, j \in Live : socket_list[i].fd = socket_list[j].fd => i = j

(* two records, one of them made by accept, after an earlier close *)
C40_Witness ==
    /\ closed.ever # {}
    /\ Len(socket_list) = 2
    /\ total_sockets = 2
    /\ \E i \in Live : socket_list[i].tcp_state = TCP_ESTABLISHED

====
